---- MODULE Spec2Model ----
(***************************************************************************)
(* Redux UI bindings: the direct-flavor binding (useSelector), the         *)
(* subscription node it attaches to the shared context subscription, and   *)
(* the host UI's render / commit cycle that drives it.                     *)
(*                                                                         *)
(* A Provider owns the root subscription node.  Two components, a parent   *)
(* "P" and a child "C" rendered by P with the prop parentCount, each call  *)
(* useSelector.  The store is the counter store of the test-suite          *)
(* (reducer count => count + 1).                                           *)
(***************************************************************************)
EXTENDS Integers, Sequences, FiniteSets, TLC

\* ------------------------------------------------------------- bounds
MaxCount == 3
MaxLocal == 2
MaxVersion == 1
MaxFactories == 3

\* ------------------------------------------------------------- universe
Bindings == {"P", "C"}

ParentSelectors == {"count", "throwPos", "throwBig", "keys", "local", "localCount"}
ChildSelectors  == {"count", "mismatch", "propPos", "sum"}

\* The second argument a component passes to useSelector: none, the
\* shallowEqual of the library, or (a, b) => a === b.
EqualityFns == {"none", "shallowEqual", "refEquality"}

\* A selected value.  Primitives are identified by their content (ref 0);
\* objects (arrays) carry a reference identity and a content.
Prim(n)   == [kind |-> "prim", ref |-> 0, content |-> n]
Obj(r, c) == [kind |-> "obj", ref |-> r, content |-> c]
Undefined == [kind |-> "undef", ref |-> 0, content |-> 0]

\* Object.keys(state): a new array on every call, always the same keys.
KeysContent == 0

\* An error value raised by a selector (identified by the store state it
\* was raised on), and the empty slot.
NoError      == [set |-> FALSE, at |-> 0]
SelectorError(s) == [set |-> TRUE, at |-> s]

\* The result of calling a selector.
Ok(v)    == [throws |-> FALSE, value |-> v]
Thrown   == [throws |-> TRUE, value |-> Undefined]

\* A selector closure: the selector function of a component together with
\* the prop and the renderedSelectorId it closed over in the render that
\* made it.
Closure(id, prop, rid) == [id |-> id, prop |-> prop, renderedSelectorId |-> rid]
NoClosure == Closure("none", 0, 0)

\* The selectors of the test-suite components, called with the store state.
\* fresh is the reference the call would allocate for a new object.
CallSelector(c, s, fresh) ==
  CASE c.id = "count"    -> Ok(Prim(s))
    [] c.id = "throwPos" -> IF s > 0 THEN Thrown ELSE Ok(Prim(s))
    [] c.id = "throwBig" -> IF s > 1 THEN Thrown ELSE Ok(Prim(s))
    [] c.id = "keys"     -> Ok(Obj(fresh, KeysContent))
    [] c.id = "local"    -> Ok(Prim(c.renderedSelectorId))
    [] c.id = "localCount" -> Ok(Prim(IF c.renderedSelectorId > 0 THEN s ELSE 0))
    [] c.id = "mismatch" -> IF s # c.prop THEN Thrown ELSE Ok(Prim(s + c.prop))
    [] c.id = "propPos"  -> IF c.prop > 0 THEN Thrown ELSE Ok(Prim(s + c.prop))
    [] c.id = "sum"      -> Ok(Prim(s + c.prop))
    [] OTHER             -> Thrown

\* Shallow equality of two selected values: identical, or two objects with
\* the same keys and identical values under every key.
shallowEqual(a, b) ==
  \/ a = b
  \/ a.kind = "obj" /\ b.kind = "obj" /\ a.content = b.content

\* Reference identity (===).
refEqual(a, b) == a = b

\* ------------------------------------------------------------- state
VARIABLES
  scenario,            \* which binding the application mounts: see Scenarios
  storeState,          \* the store's state: the count
  selId,               \* the selector each component passes to useSelector
  equalityFn,          \* the second argument the components pass to useSelector
  childWhen,           \* when P renders C: always, or at count 0, or at count 1
  listeners,           \* root subscription node: its listeners, in order
  notifyQueue,         \* notification pass in progress: snapshot still to call
  queueInPass,         \* that pass was started from inside a render pass
  notified,            \* callbacks already run in the current / last pass
  subscriptionOrder,   \* the subscribed bindings, in the order they subscribed
  lastFailure,         \* the latest callback failure since the last commit
  failureAwaitsRender, \* a callback failed since the binding's last render began
  crashed,             \* a render-phase error has unmounted the tree
  mounted,             \* the binding has committed a render
  subscribed,          \* the binding's subscription node is subscribed
  doomed,              \* the parent's render left it out: the commit unmounts it
  snapshot,            \* the listeners the current / last pass enumerated
  detachedAt,          \* when its node last unsubscribed (in dispatches done)
  needsRender,         \* the host must render it: mount, or its parent rendered
  forced,              \* forceRender is scheduled
  pending,             \* render phase done, commit phase not yet run
  prop,                \* the parentCount prop the parent last passed
  selectorId,          \* let selectorId: the renders of the "local" component so far
  latestSelector,      \* useRef: latestSelector.current
  latestSelectedState, \* useRef: latestSelectedState.current
  latestSubscriptionCallbackError, \* useRef: the error-correlation slot
  capturedSelector,    \* the selector in scope where checkForUpdates was made
  returned,            \* what useSelector last returned
  renderError,         \* the error the last render-phase pass raised
  ev,                  \* the last step taken, with what it computed
  connectArgs,         \* connect(...): mapStateToProps, mapDispatchToProps, pure
  given,               \* the stores there are: props.store, context.store
  stores,              \* the state of each store
  storeListeners,      \* the listeners of each store, in order
  storeQueue,          \* the pass of a dispatch: listeners still to call
  wrapper,             \* the Connect instance: this.store, this.stateProps, ...
  phase,               \* where the instance is in its life
  pendingState,        \* setState({storeState}) the host has not yet applied
  rendered,            \* the props the wrapped component was last rendered with
  version,             \* the version of the latest connect(...) call
  cev,                 \* the last step of the instance, with the calls it made
  mergeKind,           \* the mergeProps given to createPureFinalPropsSelector
  closure,             \* what pureSelector closes over: lastOwn ... lastResult
  sev,                 \* the last call of the selector, with what it did
  mergeArgs,           \* the three mappings defaultMergeProps is called with
  mergeResult,         \* what the call returned, once made
  memo,                \* what memoize closes over: lastProps, lastResult
  mev,                 \* the last call of memoize, with what it did
  ownPure,             \* the argument of buildOwnPropsSelector
  ownSelector,         \* what pureOwnPropsSelector closes over
  oev,                 \* the last call of the own-props selector
  factories,           \* createMatchingSelector: what each factory returns
  matched,             \* createMatchingSelector: what it returned and called
  provided,            \* the context value: its store and its subscription
  hook,                \* one useSelector binding: its useMemo cell, effect, refs
  nodes,               \* the subscription nodes of the binding that are subscribed
  hev                  \* the last step of that binding, with what it did

treeVars == <<storeState, selId, equalityFn, childWhen, doomed, snapshot, detachedAt, listeners, notifyQueue, queueInPass, notified,
          subscriptionOrder, lastFailure, failureAwaitsRender, crashed, mounted,
          subscribed, needsRender, forced, pending, prop, selectorId, latestSelector,
          latestSelectedState, latestSubscriptionCallbackError, capturedSelector,
          returned, renderError, ev>>

connectVars == <<connectArgs, given, stores, storeListeners, storeQueue, wrapper, phase,
                 pendingState, rendered, version, cev>>

selectorVars == <<mergeKind, closure, sev>>

utilVars == <<mergeArgs, mergeResult, memo, mev, ownPure, ownSelector, oev,
              factories, matched>>

hookVars == <<provided, hook, nodes, hev>>

vars == <<scenario, treeVars, connectVars, selectorVars, utilVars, hookVars>>

NoPending == [active |-> FALSE, selector |-> NoClosure, selectedState |-> Undefined]
NoRenderError == [thrown |-> FALSE, correlated |-> FALSE, previous |-> NoError]

Event(op, b, threw, selected, before, errBefore, scheduled) ==
  [op |-> op, b |-> b, threw |-> threw, selected |-> selected, before |-> before,
   errBefore |-> errBefore, scheduled |-> scheduled]

\* The references of the objects the bindings still hold, and a reference
\* no live object has: what a new array gets.
LiveRefs ==
  UNION { {latestSelectedState[b].ref, pending[b].selectedState.ref, returned[b].ref}
          : b \in Bindings }
FreshRef == CHOOSE r \in 1..(3 * Cardinality(Bindings) + 1) :
              /\ r \notin LiveRefs
              /\ \A q \in 1..(r - 1) : q \in LiveRefs

\* The components of the scenario: P always renders; it renders C with
\* parentCount = the count it selected.
HasChild == selId["C"] # "none"

\* When a node last unsubscribed: never, or during / after the pass of the
\* n-th dispatch.
NotDetached == [done |-> FALSE, pass |-> 0]
DetachedIn(n) == [done |-> TRUE, pass |-> n]

\* P's render output holds <Child />: always, or for one value of the
\* count P selected (count === 1 ? <Child /> : null, count === 0 ? ...).
ChildShown(v) ==
  /\ HasChild
  /\ \/ childWhen = "always"
     \/ childWhen = "one" /\ v = Prim(1)
     \/ childWhen = "zero" /\ v = Prim(0)

\* The store and the bindings before anything is rendered.
TreeUnrendered ==
  /\ storeState = 0
  /\ doomed = [b \in Bindings |-> FALSE]
  /\ snapshot = <<>>
  /\ detachedAt = [b \in Bindings |-> NotDetached]
  /\ listeners = <<>>
  /\ notifyQueue = <<>>
  /\ queueInPass = FALSE
  /\ notified = <<>>
  /\ subscriptionOrder = <<>>
  /\ lastFailure = [b \in Bindings |-> NoError]
  /\ failureAwaitsRender = [b \in Bindings |-> FALSE]
  /\ crashed = FALSE
  /\ mounted = [b \in Bindings |-> FALSE]
  /\ subscribed = [b \in Bindings |-> FALSE]
  /\ forced = [b \in Bindings |-> FALSE]
  /\ pending = [b \in Bindings |-> NoPending]
  /\ prop = [b \in Bindings |-> 0]
  /\ selectorId = [b \in Bindings |-> 0]
  /\ latestSelector = [b \in Bindings |-> NoClosure]
  /\ latestSelectedState = [b \in Bindings |-> Undefined]
  /\ latestSubscriptionCallbackError = [b \in Bindings |-> NoError]
  /\ capturedSelector = [b \in Bindings |-> NoClosure]
  /\ returned = [b \in Bindings |-> Undefined]
  /\ renderError = [b \in Bindings |-> NoRenderError]
  /\ ev = Event("init", "P", FALSE, Undefined, Undefined, NoError, FALSE)

\* The tree of useSelector components, before its first render.
InitTree ==
  /\ selId \in { f \in [Bindings -> ParentSelectors \cup ChildSelectors \cup {"none"}] :
                   /\ f["P"] \in ParentSelectors
                   /\ f["C"] \in ChildSelectors \cup {"none"}
                   /\ f["C"] # "none" => f["P"] = "count" }
  /\ childWhen \in {"always", "one", "zero"}
  /\ childWhen # "always" => selId["C"] = "count"
  /\ equalityFn \in EqualityFns
  /\ needsRender = [b \in Bindings |-> b = "P"]
  /\ TreeUnrendered

\* No tree of useSelector components is rendered.
NoTree ==
  /\ selId = [b \in Bindings |-> "none"]
  /\ childWhen = "always"
  /\ equalityFn = "none"
  /\ needsRender = [b \in Bindings |-> FALSE]
  /\ TreeUnrendered

\* ------------------------------------------------------------- useSelector
\* Variant: the correlation text is added to every render-phase error.
RenderPhaseAlwaysCorrelated(sel, s, err, fresh) ==
  LET r == CallSelector(sel, s, fresh) IN
  IF r.throws
    THEN [throws |-> TRUE, value |-> Undefined,
          error |-> [thrown |-> TRUE, correlated |-> TRUE, previous |-> err]]
    ELSE [throws |-> FALSE, value |-> r.value, error |-> NoRenderError]

\* The render-phase body: call the selector of this render on the store
\* state; a failure is re-raised, its message extended with the stack of
\* the slot's error when the slot is set.
RenderPhase(sel, s, err, fresh) ==
  LET r == CallSelector(sel, s, fresh) IN
  IF r.throws
    THEN [throws |-> TRUE, value |-> Undefined,
          error |-> [thrown |-> TRUE, correlated |-> err.set, previous |-> err]]
    ELSE [throws |-> FALSE, value |-> r.value, error |-> NoRenderError]

\* Variant: the effect leaves the error slot as it is.
CommitRefsKeepError(sel, selectedState, err) ==
  [latestSelector |-> sel, latestSelectedState |-> selectedState,
   latestSubscriptionCallbackError |-> err]

\* The first commit-phase effect: it runs after every committed render.
CommitRefs(sel, selectedState, err) ==
  [latestSelector |-> sel, latestSelectedState |-> selectedState,
   latestSubscriptionCallbackError |-> NoError]

\* Variant: the callback calls the selector it closed over when the
\* subscription effect ran.
checkForUpdatesCaptured(latest, captured, last, err, s, fresh) ==
  LET r == CallSelector(captured, s, fresh) IN
  IF r.throws
    THEN [latestSelectedState |-> last, latestSubscriptionCallbackError |-> SelectorError(s),
          render |-> TRUE, escaped |-> FALSE]
    ELSE IF shallowEqual(r.value, last)
      THEN [latestSelectedState |-> last, latestSubscriptionCallbackError |-> err,
            render |-> FALSE, escaped |-> FALSE]
      ELSE [latestSelectedState |-> r.value, latestSubscriptionCallbackError |-> err,
            render |-> TRUE, escaped |-> FALSE]

\* Variant: the callback has no try / catch.
checkForUpdatesNoCatch(latest, captured, last, err, s, fresh) ==
  LET r == CallSelector(latest, s, fresh) IN
  IF r.throws
    THEN [latestSelectedState |-> last, latestSubscriptionCallbackError |-> err,
          render |-> FALSE, escaped |-> TRUE]
    ELSE IF shallowEqual(r.value, last)
      THEN [latestSelectedState |-> last, latestSubscriptionCallbackError |-> err,
            render |-> FALSE, escaped |-> FALSE]
      ELSE [latestSelectedState |-> r.value, latestSubscriptionCallbackError |-> err,
            render |-> TRUE, escaped |-> FALSE]

\* Variant: the callback compares by reference instead of shallowEqual.
checkForUpdatesByReference(latest, captured, last, err, s, fresh) ==
  LET r == CallSelector(latest, s, fresh) IN
  IF r.throws
    THEN [latestSelectedState |-> last, latestSubscriptionCallbackError |-> SelectorError(s),
          render |-> TRUE, escaped |-> FALSE]
    ELSE IF refEqual(r.value, last)
      THEN [latestSelectedState |-> last, latestSubscriptionCallbackError |-> err,
            render |-> FALSE, escaped |-> FALSE]
      ELSE [latestSelectedState |-> r.value, latestSubscriptionCallbackError |-> err,
            render |-> TRUE, escaped |-> FALSE]

\* checkForUpdates, the store-change callback: latest and captured are the
\* selector in latestSelector.current and the one in scope where the
\* callback was created; last and err are the two other refs.  It returns
\* the refs after the call, whether forceRender was called, and whether an
\* exception left the callback.
checkForUpdates(latest, captured, last, err, s, fresh) ==
  LET r == CallSelector(latest, s, fresh) IN
  IF r.throws
    THEN [latestSelectedState |-> last, latestSubscriptionCallbackError |-> SelectorError(s),
          render |-> TRUE, escaped |-> FALSE]
    ELSE IF shallowEqual(r.value, last)
      THEN [latestSelectedState |-> last, latestSubscriptionCallbackError |-> err,
            render |-> FALSE, escaped |-> FALSE]
      ELSE [latestSelectedState |-> r.value, latestSubscriptionCallbackError |-> err,
            render |-> TRUE, escaped |-> FALSE]

\* Variant: the subscription effect ends without calling checkForUpdates.
checkOnSubscribeSkipped(latest, captured, last, err, s, fresh) ==
  [latestSelectedState |-> last, latestSubscriptionCallbackError |-> err,
   render |-> FALSE, escaped |-> FALSE]

\* The checkForUpdates() call that ends the subscription effect, right
\* after trySubscribe.
checkOnSubscribe(latest, captured, last, err, s, fresh) ==
  checkForUpdates(latest, captured, last, err, s, fresh)

\* ------------------------------------------------------------- Subscription
\* The listener collection of a subscription node: a new listener goes to
\* the end of the list, and its removal function takes it out.
addNestedSub(ls, b) == Append(ls, b)
removeNestedSub(ls, b) == SelectSeq(ls, LAMBDA x : x # b)

\* Variant: the subscription is put off to a later, passive effect.
trySubscribeDeferred(ls, b) == ls

\* subscription.trySubscribe() of a binding's node, made by
\* new Subscription(store, contextSub): it adds its handler to the context
\* subscription, the Provider's root node for every binding (useSelector
\* provides no subscription context of its own).  ls is the root's list.
trySubscribe(ls, b) == IF b \in {ls[i] : i \in DOMAIN ls} THEN ls ELSE addNestedSub(ls, b)

\* Variant: the cleanup leaves the listener where it is.
tryUnsubscribeKeeps(ls, b) == ls

\* subscription.tryUnsubscribe(), the cleanup of the subscription effect.
tryUnsubscribe(ls, b) == removeNestedSub(ls, b)

\* ------------------------------------------------------------- the host UI
\* A render pass is open: some binding has rendered and not committed, or
\* is still to render in the pass (the mounting pass is open from the start).
PassOpen == \E b \in Bindings : pending[b].active \/ needsRender[b]

\* A notification pass is synchronous.  Started from inside a render pass
\* (a render body or an effect dispatched), it ends before that pass goes
\* on, and the renders it schedules wait for the pass to commit.  Started
\* outside, the host may flush a scheduled render at once, between two
\* callbacks, or batch the renders until the pass has ended.
HostMayRun == notifyQueue # <<>> => ~queueInPass

\* ------------------------------------------------------------- actions
\* A step of the useSelector tree: the other bindings are not mounted.
TreeStep ==
  scenario = "tree" /\ UNCHANGED <<scenario, connectVars, selectorVars, utilVars, hookVars>>

\* store.dispatch: the reducer runs, then the root node starts a
\* notification pass over a snapshot of its listeners.
Dispatch ==
  /\ TreeStep
  /\ storeState < MaxCount
  /\ notifyQueue = <<>>
  /\ storeState' = storeState + 1
  /\ notifyQueue' = listeners
  /\ snapshot' = listeners
  /\ queueInPass' = PassOpen
  /\ notified' = <<>>
  /\ ev' = Event("dispatch", "P", FALSE, Undefined, Undefined, NoError, FALSE)
  /\ UNCHANGED <<childWhen, doomed, detachedAt, failureAwaitsRender, selId, equalityFn, listeners, subscriptionOrder, lastFailure, crashed, mounted,
                 subscribed, needsRender, forced, pending, prop, selectorId, latestSelector,
                 latestSelectedState, latestSubscriptionCallbackError, capturedSelector,
                 returned, renderError>>

\* The pass calls the next listener of its snapshot: the binding's
\* handleChangeWrapper, which calls onStateChange = checkForUpdates (also
\* for a node unsubscribed since the snapshot was taken: the refs live on in
\* the callback, and the host ignores forceRender of an unmounted component).
Notify ==
  /\ TreeStep
  /\ notifyQueue # <<>>
  /\ queueInPass \/ ~PassOpen
  /\ LET b == Head(notifyQueue)
         r == checkForUpdates(latestSelector[b], capturedSelector[b],
                              latestSelectedState[b],
                              latestSubscriptionCallbackError[b], storeState, FreshRef)
         call == CallSelector(latestSelector[b], storeState, FreshRef)
     IN /\ latestSelectedState' = [latestSelectedState EXCEPT ![b] = r.latestSelectedState]
        /\ latestSubscriptionCallbackError' =
             [latestSubscriptionCallbackError EXCEPT ![b] = r.latestSubscriptionCallbackError]
        /\ forced' = [forced EXCEPT ![b] = mounted[b] /\ (@ \/ (r.render /\ ~r.escaped))]
        /\ notified' = Append(notified, b)
        /\ notifyQueue' = IF r.escaped THEN <<>> ELSE Tail(notifyQueue)
        /\ lastFailure' = IF call.throws
                            THEN [lastFailure EXCEPT ![b] = SelectorError(storeState)]
                            ELSE lastFailure
        /\ failureAwaitsRender' = [failureAwaitsRender EXCEPT ![b] = @ \/ call.throws]
        /\ ev' = Event(IF r.escaped THEN "notifyEscaped" ELSE "notify", b, call.throws,
                       call.value, latestSelectedState[b],
                       latestSubscriptionCallbackError[b], r.render)
  /\ UNCHANGED <<childWhen, doomed, snapshot, detachedAt, storeState, selId, equalityFn, listeners, queueInPass, subscriptionOrder, crashed,
                 mounted, subscribed, needsRender, pending, prop, selectorId, latestSelector,
                 capturedSelector, returned, renderError>>

\* The host renders top-down and one pass at a time: a child renders after
\* its parent, and within its parent's pass only because the parent
\* rendered it; a parent starts no new pass while the child's is open.
CanRender(b) ==
  /\ ~crashed
  /\ HostMayRun
  /\ needsRender[b] \/ forced[b]
  /\ ~pending[b].active
  /\ ~doomed[b]
  /\ b = "C" => /\ ~(needsRender["P"] \/ forced["P"])
                /\ pending["P"].active => needsRender["C"]
  /\ b = "P" => ~pending["C"].active /\ ~needsRender["C"]

\* The error slot as the render sees it: a new instance has an empty one.
\* The component takes renderedSelectorId = selectorId++ in its render and
\* its selector closes over it.
CountsRenders(b) == selId[b] \in {"local", "localCount"}

\* Variant: every render puts the value it was given in the ref.
useRefRewritten(isMounted, current, initialValue) == initialValue

\* useRef(initialValue): the first render of an instance makes the ref with
\* initialValue, a later render gets the ref with what it holds.
useRef(isMounted, current, initialValue) == IF isMounted THEN current ELSE initialValue

SlotAtRender(b) == useRef(mounted[b], latestSubscriptionCallbackError[b], NoError)

ThisRender(b) ==
  RenderPhase(Closure(selId[b], prop[b], selectorId[b]), storeState, SlotAtRender(b), FreshRef)

\* The render phase of useSelector, the selector returning normally.  The
\* first render of an instance creates its refs (useRef's initial value);
\* P's render passes the selected count down to C when its output holds C,
\* and leaves a mounted C out otherwise: the commit will unmount it.
Render(b) ==
  /\ TreeStep
  /\ CanRender(b)
  /\ ~ThisRender(b).throws
  /\ LET sel == Closure(selId[b], prop[b], selectorId[b])
         v == ThisRender(b).value
     IN /\ pending' = [pending EXCEPT ![b] =
                         [active |-> TRUE, selector |-> sel, selectedState |-> v]]
        /\ returned' = [returned EXCEPT ![b] = v]
        /\ latestSelector' = [latestSelector EXCEPT ![b] = useRef(mounted[b], @, sel)]
        /\ latestSelectedState' =
             [latestSelectedState EXCEPT ![b] = useRef(mounted[b], @, v)]
        /\ IF b = "P" /\ ChildShown(v)
             THEN /\ prop' = [prop EXCEPT !["C"] = v.content]
                  /\ needsRender' = [needsRender EXCEPT !["P"] = FALSE, !["C"] = TRUE]
                  /\ doomed' = doomed
             ELSE /\ prop' = prop
                  /\ needsRender' = [needsRender EXCEPT ![b] = FALSE]
                  /\ doomed' = IF b = "P" THEN [doomed EXCEPT !["C"] = mounted["C"]]
                                ELSE doomed
        /\ forced' = [forced EXCEPT ![b] = FALSE]
        /\ failureAwaitsRender' = [failureAwaitsRender EXCEPT ![b] = FALSE]
        /\ ev' = Event("render", b, FALSE, v, latestSelectedState[b], SlotAtRender(b), FALSE)
  /\ latestSubscriptionCallbackError' =
       [latestSubscriptionCallbackError EXCEPT ![b] = SlotAtRender(b)]
  /\ lastFailure' = IF mounted[b] THEN lastFailure ELSE [lastFailure EXCEPT ![b] = NoError]
  /\ selectorId' = IF CountsRenders(b) THEN [selectorId EXCEPT ![b] = @ + 1]
                   ELSE selectorId
  /\ UNCHANGED <<storeState, selId, equalityFn, childWhen, snapshot, detachedAt, listeners, notifyQueue,
                 queueInPass, notified, subscriptionOrder, crashed, mounted, subscribed,
                 capturedSelector, renderError>>

\* The render phase of useSelector, the selector throwing: the error leaves
\* the render, no effect of this render runs, and the host, having no error
\* boundary, unmounts the tree (every subscribed node unsubscribes) and
\* lets the error reach whoever started the render.
RenderThrows(b) ==
  /\ TreeStep
  /\ CanRender(b)
  /\ ThisRender(b).throws
  /\ renderError' = [renderError EXCEPT ![b] = ThisRender(b).error]
  /\ crashed' = TRUE
  /\ mounted' = [x \in Bindings |-> FALSE]
  /\ subscribed' = [x \in Bindings |-> FALSE]
  /\ listeners' = tryUnsubscribe(tryUnsubscribe(listeners, "P"), "C")
  /\ detachedAt' = [x \in Bindings |-> IF subscribed[x] THEN DetachedIn(storeState) ELSE detachedAt[x]]
  /\ doomed' = [x \in Bindings |-> FALSE]
  /\ subscriptionOrder' = <<>>
  /\ notifyQueue' = <<>>
  /\ pending' = [x \in Bindings |-> NoPending]
  /\ needsRender' = [x \in Bindings |-> FALSE]
  /\ forced' = [x \in Bindings |-> FALSE]
  /\ ev' = Event("renderThrows", b, TRUE, Undefined, latestSelectedState[b],
                 SlotAtRender(b), FALSE)
  /\ UNCHANGED <<childWhen, snapshot, failureAwaitsRender, storeState, selId, equalityFn, queueInPass, notified, lastFailure, prop, selectorId,
                 latestSelector, latestSelectedState, latestSubscriptionCallbackError,
                 capturedSelector, returned>>

\* Effects run child first: P commits once C's render of this pass has.
CanCommit(b) ==
  /\ pending[b].active
  /\ HostMayRun
  /\ b = "P" => ~pending["C"].active /\ ~needsRender["C"] /\ ~doomed["C"]

\* The commit phase of a re-render: only the first effect runs (store and
\* subscription are those of the previous commit).
Commit(b) ==
  /\ TreeStep
  /\ CanCommit(b)
  /\ subscribed[b]
  /\ LET c == CommitRefs(pending[b].selector, pending[b].selectedState,
                          latestSubscriptionCallbackError[b])
     IN /\ latestSelector' = [latestSelector EXCEPT ![b] = c.latestSelector]
        /\ latestSelectedState' = [latestSelectedState EXCEPT ![b] = c.latestSelectedState]
        /\ latestSubscriptionCallbackError' =
             [latestSubscriptionCallbackError EXCEPT ![b] = c.latestSubscriptionCallbackError]
  /\ pending' = [pending EXCEPT ![b] = NoPending]
  /\ lastFailure' = [lastFailure EXCEPT ![b] = NoError]
  /\ ev' = Event("commit", b, FALSE, pending[b].selectedState, latestSelectedState[b],
                 latestSubscriptionCallbackError[b], FALSE)
  /\ UNCHANGED <<childWhen, doomed, snapshot, detachedAt, failureAwaitsRender, storeState, selId, equalityFn, listeners, notifyQueue, queueInPass, notified,
                 subscriptionOrder, crashed, mounted, subscribed, needsRender, forced, prop,
                 selectorId, capturedSelector, returned, renderError>>

\* The commit phase of the mounting render: the first effect, then the
\* second one: install checkForUpdates, trySubscribe, checkForUpdates().
Mount(b) ==
  /\ TreeStep
  /\ CanCommit(b)
  /\ ~subscribed[b]
  /\ LET c == CommitRefs(pending[b].selector, pending[b].selectedState,
                          latestSubscriptionCallbackError[b])
         r == checkOnSubscribe(c.latestSelector, pending[b].selector,
                               c.latestSelectedState, c.latestSubscriptionCallbackError,
                               storeState, FreshRef)
         call == CallSelector(c.latestSelector, storeState, FreshRef)
     IN /\ latestSelector' = [latestSelector EXCEPT ![b] = c.latestSelector]
        /\ capturedSelector' = [capturedSelector EXCEPT ![b] = pending[b].selector]
        /\ listeners' = trySubscribe(listeners, b)
        /\ subscriptionOrder' = Append(subscriptionOrder, b)
        /\ lastFailure' = [lastFailure EXCEPT ![b] =
                             IF call.throws THEN SelectorError(storeState) ELSE NoError]
        /\ failureAwaitsRender' = [failureAwaitsRender EXCEPT ![b] = @ \/ call.throws]
        /\ subscribed' = [subscribed EXCEPT ![b] = TRUE]
        /\ latestSelectedState' = [latestSelectedState EXCEPT ![b] = r.latestSelectedState]
        /\ latestSubscriptionCallbackError' =
             [latestSubscriptionCallbackError EXCEPT ![b] = r.latestSubscriptionCallbackError]
        /\ forced' = [forced EXCEPT ![b] = @ \/ r.render]
        /\ ev' = Event("mount", b, call.throws, call.value, c.latestSelectedState,
                       c.latestSubscriptionCallbackError, r.render)
  /\ mounted' = [mounted EXCEPT ![b] = TRUE]
  /\ pending' = [pending EXCEPT ![b] = NoPending]
  /\ UNCHANGED <<childWhen, doomed, snapshot, detachedAt, storeState, selId, equalityFn, notifyQueue, queueInPass, notified, crashed,
                 needsRender, prop, selectorId, returned, renderError>>

\* Variant: the cleanup also withdraws the node from the pass in progress.
UnmountLeavesPass(b) ==
  /\ TreeStep
  /\ doomed[b]
  /\ HostMayRun
  /\ listeners' = tryUnsubscribe(listeners, b)
  /\ notifyQueue' = removeNestedSub(notifyQueue, b)
  /\ subscriptionOrder' = SelectSeq(subscriptionOrder, LAMBDA x : x # b)
  /\ detachedAt' = [detachedAt EXCEPT ![b] = DetachedIn(storeState)]
  /\ subscribed' = [subscribed EXCEPT ![b] = FALSE]
  /\ mounted' = [mounted EXCEPT ![b] = FALSE]
  /\ doomed' = [doomed EXCEPT ![b] = FALSE]
  /\ forced' = [forced EXCEPT ![b] = FALSE]
  /\ ev' = Event("unmount", b, FALSE, Undefined, latestSelectedState[b],
                 latestSubscriptionCallbackError[b], FALSE)
  /\ UNCHANGED <<storeState, selId, equalityFn, childWhen, snapshot, queueInPass, notified,
                 lastFailure, failureAwaitsRender, crashed, needsRender, pending, prop,
                 selectorId, latestSelector, latestSelectedState,
                 latestSubscriptionCallbackError, capturedSelector, returned, renderError>>

\* The commit of a render that left the binding out unmounts it, before the
\* effects of the commit run: the cleanup of its subscription effect calls
\* subscription.tryUnsubscribe().
Unmount(b) ==
  /\ TreeStep
  /\ doomed[b]
  /\ HostMayRun
  /\ listeners' = tryUnsubscribe(listeners, b)
  /\ subscriptionOrder' = SelectSeq(subscriptionOrder, LAMBDA x : x # b)
  /\ detachedAt' = [detachedAt EXCEPT ![b] = DetachedIn(storeState)]
  /\ subscribed' = [subscribed EXCEPT ![b] = FALSE]
  /\ mounted' = [mounted EXCEPT ![b] = FALSE]
  /\ doomed' = [doomed EXCEPT ![b] = FALSE]
  /\ forced' = [forced EXCEPT ![b] = FALSE]
  /\ ev' = Event("unmount", b, FALSE, Undefined, latestSelectedState[b],
                 latestSubscriptionCallbackError[b], FALSE)
  /\ UNCHANGED <<storeState, selId, equalityFn, childWhen, snapshot, notifyQueue, queueInPass, notified,
                 lastFailure, failureAwaitsRender, crashed, needsRender, pending, prop,
                 selectorId, latestSelector, latestSelectedState,
                 latestSubscriptionCallbackError, capturedSelector, returned, renderError>>

\* forceRender, the dispatch of the component's own useReducer: a render
\* is scheduled.  The state of the reducer is not read; the selector of a
\* render closes over selectorId as that render found it.
LocalUpdate(b) ==
  /\ TreeStep
  /\ ~crashed
  /\ notifyQueue = <<>>
  /\ ~PassOpen
  /\ mounted[b]
  /\ CountsRenders(b)
  /\ selectorId[b] <= MaxLocal
  /\ forced' = [forced EXCEPT ![b] = TRUE]
  /\ ev' = Event("local", b, FALSE, Undefined, Undefined, NoError, TRUE)
  /\ UNCHANGED <<childWhen, doomed, snapshot, detachedAt, failureAwaitsRender, storeState, selId, equalityFn, listeners, notifyQueue, queueInPass, notified,
                 subscriptionOrder, lastFailure, crashed, mounted, subscribed, needsRender,
                 pending, prop, selectorId, latestSelector, latestSelectedState,
                 latestSubscriptionCallbackError, capturedSelector, returned, renderError>>

\* ------------------------------------------------------------- connect
\* The declarative wrapper: connect(mapStateToProps, mapDispatchToProps,
\* mergeProps, options)(WrappedComponent), one instance W of the Connect
\* component, over the store it resolves.
Stores == {"props", "context"}

\* The mapStateToProps arguments tried: none, state => ({count: state}),
\* state => ({flag: state > 0}), (state, props) => ({sum: state + props.x}),
\* and state => state > 0 ? state : {count: state}, which returns a number;
\* the mapDispatchToProps ones: none (the default, dispatch =>
\* ({dispatch})), (dispatch, props) => ({act: bound to props.x}), and
\* (dispatch, props) => props.x > 0 ? props.x : {act: ...}; the mergeProps
\* ones: none (defaultMergeProps) and (stateProps, dispatchProps,
\* parentProps) => stateProps.count > 0 ? stateProps.count : {...}.
MapStateToProps    == {"none", "count", "flag", "sum", "invalid"}
MapDispatchToProps == {"default", "bound", "invalid"}
MergePropsArgs     == {"default", "invalid"}

shouldSubscribe(args)           == args.mapStateToProps # "none"
shouldUpdateStateProps(args)    == args.mapStateToProps = "sum"
shouldUpdateDispatchProps(args) == args.mapDispatchToProps \in {"bound", "invalid"}

\* The content of the mapping each function returns (a new object per call).
finalMapStateToProps(args, state, props) ==
  CASE args.mapStateToProps \in {"count", "invalid"} -> <<state>>
    [] args.mapStateToProps = "flag"  -> <<IF state > 0 THEN 1 ELSE 0>>
    [] args.mapStateToProps = "sum"   -> <<state + props.content>>
    [] OTHER                          -> <<>>

finalMapDispatchToProps(args, props) ==
  IF args.mapDispatchToProps \in {"bound", "invalid"} THEN <<props.content>> ELSE <<>>

\* defaultMergeProps: {...parentProps, ...stateProps, ...dispatchProps}.
finalMergeProps(stateProps, dispatchProps, parentProps) ==
  <<parentProps.content, stateProps.content, dispatchProps.content>>

\* What the three functions return: a new mapping, or the number.
mapStateToPropsValue(args, state, props, fresh) ==
  IF args.mapStateToProps = "invalid" /\ state > 0
    THEN Prim(state)
    ELSE Obj(fresh, finalMapStateToProps(args, state, props))

mapDispatchToPropsValue(args, props, fresh) ==
  IF args.mapDispatchToProps = "invalid" /\ props.content > 0
    THEN Prim(props.content)
    ELSE Obj(fresh, finalMapDispatchToProps(args, props))

mergePropsValue(args, stateProps, dispatchProps, parentProps, fresh) ==
  IF args.mergeProps = "invalid" /\ stateProps.content # <<0>>
    THEN Prim(stateProps.content[1])
    ELSE Obj(fresh, finalMergeProps(stateProps, dispatchProps, parentProps))

isPlainObject(v) == v.kind = "obj"

\* invariant(condition, format, value): passes, or throws an error whose
\* message names the function and the value it returned.
NoFailure == [thrown |-> FALSE, stage |-> "none", value |-> Undefined]
invariant(condition, stage, value) ==
  IF condition THEN NoFailure ELSE [thrown |-> TRUE, stage |-> stage, value |-> value]

\* this.state.storeState: null, or a state of the store (the reducer makes
\* a new state object for every count).
NullState  == [set |-> FALSE, state |-> 0]
StateOf(s) == [set |-> TRUE, state |-> s]

\* References are names.  Between two steps the objects an instance holds
\* are named 1 (its props), 2 (its state props), 3 (its dispatch props) and
\* 4 (its merged props); an object made during a step gets a name no live
\* object has, and settled renames the objects the step leaves behind.
freshProps(this)         == this.props.ref + 4
freshStateProps(this)    == this.stateProps.ref + 4
freshDispatchProps(this) == this.dispatchProps.ref + 4
freshMerged(this)        == this.nextState.ref + 4

settled(this) ==
  [this EXCEPT !.props.ref = 1, !.stateProps.ref = 2, !.dispatchProps.ref = 3,
               !.nextState.ref = 4]

\* What the calls of one step did.
NoCalls(op) ==
  [op |-> op, update |-> FALSE, storeChanged |-> FALSE, propsChanged |-> FALSE,
   ranMapState |-> FALSE, mapStateWithProps |-> FALSE, ranMapDispatch |-> FALSE,
   ranMerge |-> FALSE, subscribeCalls |-> 0, unsubscribeCalls |-> 0,
   handleChangeCalls |-> 0, setState |-> FALSE, hotReloaded |-> FALSE,
   newMerged |-> FALSE, newStateProps |-> FALSE, newDispatchProps |-> FALSE,
   error |-> NoFailure]

\* No Connect instance yet.
NoInstance ==
  [store |-> "none", props |-> Undefined, stateProps |-> Undefined,
   dispatchProps |-> Undefined, state |-> NullState, nextState |-> Undefined,
   unsubscribe |-> FALSE, version |-> 0]

NoPendingState == [set |-> FALSE, storeState |-> NullState]

\* Variant: computeStateProps without its invariant.
computeStatePropsUnchecked(args, state, props, fresh) ==
  [value |-> mapStateToPropsValue(args, state, props, fresh),
   withProps |-> shouldUpdateStateProps(args), error |-> NoFailure]

computeStateProps(args, state, props, fresh) ==
  LET stateProps == mapStateToPropsValue(args, state, props, fresh) IN
  [value |-> stateProps, withProps |-> shouldUpdateStateProps(args),
   error |-> invariant(isPlainObject(stateProps), "mapStateToProps", stateProps)]

computeDispatchProps(args, props, fresh) ==
  LET dispatchProps == mapDispatchToPropsValue(args, props, fresh) IN
  [value |-> dispatchProps, withProps |-> shouldUpdateDispatchProps(args),
   error |-> invariant(isPlainObject(dispatchProps), "mapDispatchToProps", dispatchProps)]

computeNextState(args, stateProps, dispatchProps, parentProps, fresh) ==
  LET mergedProps == mergePropsValue(args, stateProps, dispatchProps, parentProps, fresh) IN
  [value |-> mergedProps,
   error |-> invariant(isPlainObject(mergedProps), "mergeProps", mergedProps)]

\* A method not run because an earlier one threw.
NotRun(this, error) == [this |-> this, changed |-> FALSE, error |-> error]

\* Variant: the new state props are stored before they are compared.
updateStatePropsAlwaysAssigns(args, this, state, props) ==
  LET c == computeStateProps(args, state, props, freshStateProps(this))
      nextStateProps == c.value
  IN IF c.error.thrown THEN NotRun(this, c.error)
     ELSE [this |-> [this EXCEPT !.stateProps = nextStateProps],
           changed |-> ~shallowEqual(nextStateProps, this.stateProps),
           error |-> NoFailure]

\* updateStateProps(props).
updateStateProps(args, this, state, props) ==
  LET c == computeStateProps(args, state, props, freshStateProps(this))
      nextStateProps == c.value
  IN IF c.error.thrown THEN NotRun(this, c.error)
     ELSE IF shallowEqual(nextStateProps, this.stateProps)
       THEN [this |-> this, changed |-> FALSE, error |-> NoFailure]
       ELSE [this |-> [this EXCEPT !.stateProps = nextStateProps], changed |-> TRUE,
             error |-> NoFailure]

updateDispatchProps(args, this, props) ==
  LET c == computeDispatchProps(args, props, freshDispatchProps(this))
      nextDispatchProps == c.value
  IN IF c.error.thrown THEN NotRun(this, c.error)
     ELSE IF shallowEqual(nextDispatchProps, this.dispatchProps)
       THEN [this |-> this, changed |-> FALSE, error |-> NoFailure]
       ELSE [this |-> [this EXCEPT !.dispatchProps = nextDispatchProps], changed |-> TRUE,
             error |-> NoFailure]

updateState(args, this, props) ==
  LET c == computeNextState(args, this.stateProps, this.dispatchProps, props,
                            freshMerged(this))
  IN IF c.error.thrown THEN NotRun(this, c.error)
     ELSE [this |-> [this EXCEPT !.nextState = c.value], changed |-> TRUE,
           error |-> NoFailure]

\* Variant: every update is let through, nothing is recomputed.
shouldComponentUpdateAlways(args, this, state, nextProps, nextState) ==
  [this |-> this, update |-> TRUE, error |-> NoFailure,
   storeChanged |-> nextState # this.state,
   propsChanged |-> ~shallowEqual(nextProps, this.props),
   ranMapState |-> FALSE, ranMapDispatch |-> FALSE, ranMerge |-> FALSE]

\* Variant: the state props are recomputed whenever the props changed.
shouldComponentUpdateOnProps(args, this, state, nextProps, nextState) ==
  LET storeChanged == nextState # this.state
      propsChanged == ~shallowEqual(nextProps, this.props)
      a == IF storeChanged \/ propsChanged
             THEN updateStateProps(args, this, state, nextProps)
             ELSE NotRun(this, NoFailure)
      b == IF propsChanged /\ ~a.error.thrown
             THEN updateDispatchProps(args, a.this, nextProps)
             ELSE NotRun(a.this, a.error)
      merge == ~b.error.thrown /\ (propsChanged \/ a.changed \/ b.changed)
      c == IF merge THEN updateState(args, b.this, nextProps) ELSE NotRun(b.this, b.error)
  IN [this |-> c.this, update |-> merge /\ ~c.error.thrown, error |-> c.error,
      storeChanged |-> storeChanged, propsChanged |-> propsChanged,
      ranMapState |-> storeChanged \/ propsChanged,
      ranMapDispatch |-> propsChanged /\ ~a.error.thrown, ranMerge |-> merge]

\* Connect.shouldComponentUpdate(nextProps, nextState); state is what
\* store.getState() returns during the call.  A method that throws ends
\* the call: error is then what was thrown, and nothing is returned.
shouldComponentUpdate(args, this, state, nextProps, nextState) ==
  IF ~args.pure
    THEN LET a == updateStateProps(args, this, state, nextProps)
             b == IF a.error.thrown THEN NotRun(a.this, a.error)
                  ELSE updateDispatchProps(args, a.this, nextProps)
             c == IF b.error.thrown THEN NotRun(b.this, b.error)
                  ELSE updateState(args, b.this, nextProps)
         IN [this |-> c.this, update |-> ~c.error.thrown, error |-> c.error,
             storeChanged |-> nextState # this.state,
             propsChanged |-> ~shallowEqual(nextProps, this.props),
             ranMapState |-> TRUE, ranMapDispatch |-> ~a.error.thrown,
             ranMerge |-> ~b.error.thrown]
    ELSE
      LET storeChanged == nextState # this.state
          propsChanged == ~shallowEqual(nextProps, this.props)
          runState == storeChanged \/ (propsChanged /\ shouldUpdateStateProps(args))
          a == IF runState
                 THEN updateStateProps(args, this, state, nextProps)
                 ELSE NotRun(this, NoFailure)
          runDispatch == ~a.error.thrown /\ propsChanged /\ shouldUpdateDispatchProps(args)
          b == IF runDispatch
                 THEN updateDispatchProps(args, a.this, nextProps)
                 ELSE NotRun(a.this, a.error)
          merge == ~b.error.thrown /\ (propsChanged \/ a.changed \/ b.changed)
          c == IF merge THEN updateState(args, b.this, nextProps)
               ELSE NotRun(b.this, b.error)
      IN [this |-> c.this, update |-> merge /\ ~c.error.thrown, error |-> c.error,
          storeChanged |-> storeChanged, propsChanged |-> propsChanged,
          ranMapState |-> runState, ranMapDispatch |-> runDispatch,
          ranMerge |-> merge]

\* Variant: the store of the context is preferred to the one in the props.
resolveStoreContextFirst(hasPropsStore, hasContextStore) ==
  IF hasContextStore THEN "context" ELSE IF hasPropsStore THEN "props" ELSE "none"

\* this.store = props.store || context.store
resolveStore(hasPropsStore, hasContextStore) ==
  IF hasPropsStore THEN "props" ELSE IF hasContextStore THEN "context" ELSE "none"

\* The constructor, the invariant on this.store having passed; state is
\* the state of that store.  With an error no instance is made.
constructor(args, store, state, props, currentVersion) ==
  LET s == computeStateProps(args, state, props, props.ref + 1)
      d == IF s.error.thrown THEN [value |-> Undefined, error |-> s.error]
           ELSE computeDispatchProps(args, props, props.ref + 2)
      n == IF d.error.thrown THEN [value |-> Undefined, error |-> d.error]
           ELSE computeNextState(args, s.value, d.value, props, props.ref + 3)
  IN [this |-> [store |-> store, props |-> props, stateProps |-> s.value,
                dispatchProps |-> d.value, state |-> NullState,
                nextState |-> n.value,
                unsubscribe |-> FALSE, version |-> currentVersion],
      error |-> n.error,
      ranMapDispatch |-> ~s.error.thrown, ranMerge |-> ~d.error.thrown]

\* handleChange: nothing once unsubscribed, else setState({storeState}).
handleChange(this, state) ==
  IF ~this.unsubscribe
    THEN [setState |-> FALSE, storeState |-> this.state]
    ELSE [setState |-> TRUE, storeState |-> StateOf(state)]

\* trySubscribe not entered: nothing is registered, handleChange is not run.
notSubscribing(this) ==
  [this |-> this, subscribeCalls |-> 0, handleChangeCalls |-> 0,
   change |-> [setState |-> FALSE, storeState |-> this.state]]

\* Variant: trySubscribe without the test of this.unsubscribe.
trySubscribeAgain(args, this, state) ==
  IF shouldSubscribe(args)
    THEN LET subscribedThis == [this EXCEPT !.unsubscribe = TRUE] IN
         [this |-> subscribedThis, subscribeCalls |-> 1, handleChangeCalls |-> 1,
          change |-> handleChange(subscribedThis, state)]
    ELSE notSubscribing(this)

\* Variant: trySubscribe registers the listener and does not run handleChange.
trySubscribeWithoutPass(args, this, state) ==
  IF shouldSubscribe(args) /\ ~this.unsubscribe
    THEN LET subscribedThis == [this EXCEPT !.unsubscribe = TRUE] IN
         [this |-> subscribedThis, subscribeCalls |-> 1, handleChangeCalls |-> 0,
          change |-> [setState |-> FALSE, storeState |-> this.state]]
    ELSE notSubscribing(this)

\* Variant: trySubscribe without the test of shouldSubscribe.
trySubscribeUnconditional(args, this, state) ==
  IF ~this.unsubscribe
    THEN LET subscribedThis == [this EXCEPT !.unsubscribe = TRUE] IN
         [this |-> subscribedThis, subscribeCalls |-> 1, handleChangeCalls |-> 1,
          change |-> handleChange(subscribedThis, state)]
    ELSE notSubscribing(this)

\* Connect.trySubscribe (the listener list of the store is the action's).
connectTrySubscribe(args, this, state) ==
  IF shouldSubscribe(args) /\ ~this.unsubscribe
    THEN LET subscribedThis == [this EXCEPT !.unsubscribe = TRUE] IN
         [this |-> subscribedThis, subscribeCalls |-> 1, handleChangeCalls |-> 1,
          change |-> handleChange(subscribedThis, state)]
    ELSE notSubscribing(this)

\* Connect.tryUnsubscribe.
connectTryUnsubscribe(this) ==
  IF this.unsubscribe
    THEN [this |-> [this EXCEPT !.unsubscribe = FALSE], unsubscribeCalls |-> 1]
    ELSE [this |-> this, unsubscribeCalls |-> 0]

\* The store's listener list: subscribe appends, the function subscribe
\* returned removes that one registration.
storeSubscribe(ls, n) == IF n = 0 THEN ls ELSE Append(ls, "W")
storeUnsubscribe(ls, n) == IF n = 0 \/ ls = <<>> THEN ls ELSE Tail(ls)

\* componentWillUpdate of the development build: after a hot reload it
\* subscribes and recomputes, on this.props (the props before the update).
componentWillUpdate(args, this, state, currentVersion) ==
  IF this.version = currentVersion
    THEN [this |-> this, hotReloaded |-> FALSE, sub |-> notSubscribing(this),
          error |-> NoFailure]
    ELSE LET sub == connectTrySubscribe(args, [this EXCEPT !.version = currentVersion], state)
             a == updateStateProps(args, sub.this, state, this.props)
             b == IF a.error.thrown THEN NotRun(a.this, a.error)
                  ELSE updateDispatchProps(args, a.this, this.props)
             c == IF b.error.thrown THEN NotRun(b.this, b.error)
                  ELSE updateState(args, b.this, this.props)
         IN [this |-> c.this, hotReloaded |-> TRUE, sub |-> sub, error |-> c.error]

\* A step of the Connect instance: the other bindings are not mounted.
ConnectStep ==
  scenario = "connect"
  /\ UNCHANGED <<scenario, treeVars, selectorVars, utilVars, hookVars>>

\* The host creates the instance with the props x and renders it: the
\* constructor, then render() with this.nextState.
Construct ==
  /\ ConnectStep
  /\ phase = "none"
  /\ resolveStore(given.props, given.context) # "none"
  /\ \E x \in 0..MaxLocal :
       LET store == resolveStore(given.props, given.context)
           c == constructor(connectArgs, store, stores[store], Obj(1, x), version)
       IN /\ ~c.error.thrown
          /\ wrapper' = settled(c.this)
          /\ rendered' = settled(c.this).nextState
          /\ cev' = [NoCalls("construct") EXCEPT
                       !.ranMapState = TRUE, !.ranMapDispatch = TRUE, !.ranMerge = TRUE,
                       !.mapStateWithProps = shouldUpdateStateProps(connectArgs),
                       !.newMerged = TRUE]
  /\ phase' = "constructed"
  /\ UNCHANGED <<connectArgs, given, stores, storeListeners, storeQueue, pendingState,
                 version>>

\* The constructor throws on what one of the three functions returned: no
\* instance is made and nothing is rendered.
ConstructInvariantThrows ==
  /\ ConnectStep
  /\ phase = "none"
  /\ resolveStore(given.props, given.context) # "none"
  /\ \E x \in 0..MaxLocal :
       LET store == resolveStore(given.props, given.context)
           c == constructor(connectArgs, store, stores[store], Obj(1, x), version)
       IN /\ c.error.thrown
          /\ cev' = [NoCalls("constructInvariantThrows") EXCEPT
                       !.ranMapState = TRUE, !.ranMapDispatch = c.ranMapDispatch,
                       !.ranMerge = c.ranMerge,
                       !.mapStateWithProps = shouldUpdateStateProps(connectArgs),
                       !.error = c.error]
  /\ phase' = "threw"
  /\ UNCHANGED <<connectArgs, given, stores, storeListeners, storeQueue, wrapper,
                 pendingState, rendered, version>>

\* The constructor with no store in the props nor in the context: the
\* invariant throws, before anything is computed.
ConstructThrows ==
  /\ ConnectStep
  /\ phase = "none"
  /\ resolveStore(given.props, given.context) = "none"
  /\ phase' = "failed"
  /\ cev' = NoCalls("constructThrows")
  /\ UNCHANGED <<connectArgs, given, stores, storeListeners, storeQueue, wrapper,
                 pendingState, rendered, version>>

\* componentDidMount: trySubscribe.
DidMount ==
  /\ ConnectStep
  /\ phase = "constructed"
  /\ LET r == connectTrySubscribe(connectArgs, wrapper, stores[wrapper.store]) IN
       /\ wrapper' = r.this
       /\ storeListeners' = [storeListeners EXCEPT ![wrapper.store] =
                               storeSubscribe(@, r.subscribeCalls)]
       /\ pendingState' = IF r.change.setState
                            THEN [set |-> TRUE, storeState |-> r.change.storeState]
                            ELSE pendingState
       /\ cev' = [NoCalls("didMount") EXCEPT
                    !.subscribeCalls = r.subscribeCalls,
                    !.handleChangeCalls = r.handleChangeCalls,
                    !.setState = r.change.setState]
  /\ phase' = "mounted"
  /\ UNCHANGED <<connectArgs, given, stores, storeQueue, rendered, version>>

\* store.dispatch on one of the stores: the reducer makes the next state,
\* or returns the state it got for an action it does not know; the store
\* then calls the listeners it has at that moment.  (Once the instance
\* exists only the dispatches to its store are followed: the others reach
\* no listener of it.)
StoreDispatch(s, known) ==
  /\ ConnectStep
  /\ given[s]
  /\ phase = "none" \/ s = wrapper.store
  /\ storeQueue = <<>>
  /\ stores[s] < MaxCount
  /\ stores' = [stores EXCEPT ![s] = IF known THEN @ + 1 ELSE @]
  /\ storeQueue' = storeListeners[s]
  /\ cev' = NoCalls("dispatch")
  /\ UNCHANGED <<connectArgs, given, storeListeners, wrapper, phase, pendingState,
                 rendered, version>>

\* The store calls the next listener of its pass: W's handleChange.
HandleChange ==
  /\ ConnectStep
  /\ storeQueue # <<>>
  /\ LET r == handleChange(wrapper, stores[wrapper.store]) IN
       /\ pendingState' = IF r.setState
                            THEN [set |-> TRUE, storeState |-> r.storeState]
                            ELSE pendingState
       /\ cev' = [NoCalls("handleChange") EXCEPT
                    !.handleChangeCalls = 1, !.setState = r.setState]
  /\ storeQueue' = Tail(storeQueue)
  /\ UNCHANGED <<connectArgs, given, stores, storeListeners, wrapper, phase, rendered,
                 version>>

\* The host updates the instance, for a setState of handleChange and / or
\* for new props from the parent (sameProps: the parent did not render):
\* shouldComponentUpdate, then componentWillUpdate and render() if it
\* returned true; this.props and this.state are the new ones either way.
\* (The host starts no update while the store is calling its listeners.)
Update(sameProps, x) ==
  /\ ConnectStep
  /\ phase = "mounted"
  /\ storeQueue = <<>>
  /\ sameProps => pendingState.set /\ x = 0
  /\ LET nextProps == IF sameProps THEN wrapper.props ELSE Obj(freshProps(wrapper), x)
         nextState == IF pendingState.set THEN pendingState.storeState ELSE wrapper.state
         state == stores[wrapper.store]
     IN \E s \in {shouldComponentUpdate(connectArgs, wrapper, state, nextProps, nextState)} :
        \E w \in {IF s.update
                     THEN componentWillUpdate(connectArgs, s.this, state, version)
                     ELSE [this |-> s.this, hotReloaded |-> FALSE,
                           sub |-> notSubscribing(s.this), error |-> s.error]} :
          /\ storeListeners' = [storeListeners EXCEPT ![wrapper.store] =
                                  storeSubscribe(@, w.sub.subscribeCalls)]
          /\ wrapper' = IF w.error.thrown THEN settled(w.this)
                        ELSE settled([w.this EXCEPT !.props = nextProps,
                                                    !.state = nextState])
          /\ rendered' = IF s.update /\ ~w.error.thrown THEN settled(w.this).nextState
                         ELSE rendered
          /\ pendingState' = IF w.sub.change.setState /\ ~w.error.thrown
                               THEN [set |-> TRUE, storeState |-> w.sub.change.storeState]
                               ELSE NoPendingState
          /\ phase' = IF w.error.thrown THEN "threw" ELSE phase
          /\ cev' = [NoCalls(IF w.error.thrown THEN "updateThrows" ELSE "update") EXCEPT
                       !.update = s.update /\ ~w.error.thrown,
                       !.storeChanged = s.storeChanged,
                       !.propsChanged = s.propsChanged, !.ranMapState = s.ranMapState,
                       !.mapStateWithProps =
                          s.ranMapState /\ shouldUpdateStateProps(connectArgs),
                       !.ranMapDispatch = s.ranMapDispatch, !.ranMerge = s.ranMerge,
                       !.subscribeCalls = w.sub.subscribeCalls,
                       !.handleChangeCalls = w.sub.handleChangeCalls,
                       !.setState = w.sub.change.setState,
                       !.hotReloaded = w.hotReloaded,
                       !.newMerged = ~refEqual(w.this.nextState, wrapper.nextState),
                       !.newStateProps =
                          ~refEqual(w.this.stateProps, wrapper.stateProps),
                       !.newDispatchProps =
                          ~refEqual(w.this.dispatchProps, wrapper.dispatchProps),
                       !.error = w.error]
  /\ UNCHANGED <<connectArgs, given, stores, storeQueue, version>>

\* A hot reload: connect(...) runs again and the prototype of the mounted
\* component gets the methods of the new call, with the next version.
HotReload ==
  /\ ConnectStep
  /\ phase = "mounted"
  /\ storeQueue = <<>>
  /\ version < MaxVersion
  /\ version' = version + 1
  /\ cev' = NoCalls("hotReload")
  /\ UNCHANGED <<connectArgs, given, stores, storeListeners, storeQueue, wrapper, phase,
                 pendingState, rendered>>

\* componentWillUnmount: tryUnsubscribe.  The host drops the updates the
\* instance still had to perform.
WillUnmount ==
  /\ ConnectStep
  /\ phase = "mounted"
  /\ LET r == connectTryUnsubscribe(wrapper) IN
       /\ wrapper' = r.this
       /\ storeListeners' = [storeListeners EXCEPT ![wrapper.store] =
                               storeUnsubscribe(@, r.unsubscribeCalls)]
       /\ cev' = [NoCalls("willUnmount") EXCEPT !.unsubscribeCalls = r.unsubscribeCalls]
  /\ phase' = "unmounted"
  /\ pendingState' = NoPendingState
  /\ UNCHANGED <<connectArgs, given, stores, storeQueue, rendered, version>>

\* ------------------------------------------------------------- selectors
\* The final-props selector of the pure mode: the function pureSelector
\* that createPureFinalPropsSelector returns, with the five variables it
\* closes over.  The stages getOwnProps, getState and getDispatch are its
\* parameters: a call of pureSelector is given what they return.
MergeProps == {"default", "stateOnly"}

\* mergeProps(stateProps, dispatchProps, ownProps): the default merge
\* ({...ownProps, ...stateProps, ...dispatchProps}) or one that keeps the
\* state props only; the content of the new object it returns.
mergeProps(kind, stateProps, dispatchProps, ownProps) ==
  IF kind = "stateOnly" THEN <<stateProps.content>>
  ELSE <<ownProps.content, stateProps.content, dispatchProps.content>>

\* The closure of a selector just created.
NewPureSelector ==
  [lastOwn |-> Undefined, lastState |-> Undefined, lastDispatch |-> Undefined,
   lastMerged |-> Undefined, lastResult |-> Undefined]

\* References are names.  Between two calls the objects the closure holds
\* are named 1 (lastOwn), 2 (lastState), 3 (lastDispatch), 4 (lastMerged)
\* and, when lastResult is an older object than lastMerged, 5; an object
\* made for a call gets a name no live object has.
freshOwn(c)      == c.lastOwn.ref + 5
freshState(c)    == c.lastState.ref + 5
freshDispatch(c) == c.lastDispatch.ref + 5
freshMergedProps(c) == c.lastMerged.ref + c.lastResult.ref + 5

settledSelector(c) ==
  [c EXCEPT !.lastOwn.ref = 1, !.lastState.ref = 2, !.lastDispatch.ref = 3,
            !.lastMerged.ref = 4,
            !.lastResult.ref = IF refEqual(c.lastResult, c.lastMerged) THEN 4 ELSE 5]

\* What a stage may return on a call: the object it returned last time, or
\* a new object of any content.
StageResults(last, fresh) ==
  (IF last = Undefined THEN {} ELSE {last}) \cup {Obj(fresh, n) : n \in 0..MaxLocal}

\* Variant: merge is invoked on every call.
pureSelectorAlwaysMerges(c, kind, nextOwn, nextState, nextDispatch) ==
  LET nextMerged == Obj(freshMergedProps(c), mergeProps(kind, nextState, nextDispatch, nextOwn))
      replaced == c.lastMerged = Undefined \/ ~shallowEqual(c.lastMerged, nextMerged)
  IN [closure |-> [lastOwn |-> nextOwn, lastState |-> nextState,
                   lastDispatch |-> nextDispatch, lastMerged |-> nextMerged,
                   lastResult |-> IF replaced THEN nextMerged ELSE c.lastResult],
      result |-> IF replaced THEN nextMerged ELSE c.lastResult,
      mergeCalled |-> TRUE, nextMerged |-> nextMerged]

\* Variant: every merged value becomes the result.
pureSelectorNoValueGate(c, kind, nextOwn, nextState, nextDispatch) ==
  LET mergeCalled == \/ ~refEqual(c.lastOwn, nextOwn)
                     \/ ~refEqual(c.lastState, nextState)
                     \/ ~refEqual(c.lastDispatch, nextDispatch)
      nextMerged == Obj(freshMergedProps(c), mergeProps(kind, nextState, nextDispatch, nextOwn))
  IN [closure |-> [lastOwn |-> nextOwn, lastState |-> nextState,
                   lastDispatch |-> nextDispatch,
                   lastMerged |-> IF mergeCalled THEN nextMerged ELSE c.lastMerged,
                   lastResult |-> IF mergeCalled THEN nextMerged ELSE c.lastResult],
      result |-> IF mergeCalled THEN nextMerged ELSE c.lastResult,
      mergeCalled |-> mergeCalled,
      nextMerged |-> IF mergeCalled THEN nextMerged ELSE Undefined]

\* Variant: the results of the stages are compared by value.
pureSelectorByValue(c, kind, nextOwn, nextState, nextDispatch) ==
  LET mergeCalled == \/ ~shallowEqual(c.lastOwn, nextOwn)
                     \/ ~shallowEqual(c.lastState, nextState)
                     \/ ~shallowEqual(c.lastDispatch, nextDispatch)
      nextMerged == Obj(freshMergedProps(c), mergeProps(kind, nextState, nextDispatch, nextOwn))
      replaced == mergeCalled
                  /\ (c.lastMerged = Undefined \/ ~shallowEqual(c.lastMerged, nextMerged))
  IN [closure |-> [lastOwn |-> nextOwn, lastState |-> nextState,
                   lastDispatch |-> nextDispatch,
                   lastMerged |-> IF mergeCalled THEN nextMerged ELSE c.lastMerged,
                   lastResult |-> IF replaced THEN nextMerged ELSE c.lastResult],
      result |-> IF replaced THEN nextMerged ELSE c.lastResult,
      mergeCalled |-> mergeCalled,
      nextMerged |-> IF mergeCalled THEN nextMerged ELSE Undefined]

\* Variant: the result is set by the first merge and never replaced.
pureSelectorStaleResult(c, kind, nextOwn, nextState, nextDispatch) ==
  LET mergeCalled == \/ ~refEqual(c.lastOwn, nextOwn)
                     \/ ~refEqual(c.lastState, nextState)
                     \/ ~refEqual(c.lastDispatch, nextDispatch)
      nextMerged == Obj(freshMergedProps(c), mergeProps(kind, nextState, nextDispatch, nextOwn))
      replaced == mergeCalled /\ c.lastMerged = Undefined
  IN [closure |-> [lastOwn |-> nextOwn, lastState |-> nextState,
                   lastDispatch |-> nextDispatch,
                   lastMerged |-> IF mergeCalled THEN nextMerged ELSE c.lastMerged,
                   lastResult |-> IF replaced THEN nextMerged ELSE c.lastResult],
      result |-> IF replaced THEN nextMerged ELSE c.lastResult,
      mergeCalled |-> mergeCalled,
      nextMerged |-> IF mergeCalled THEN nextMerged ELSE Undefined]

\* pureSelector(state, props, dispatch), the three stages having returned
\* nextOwn, nextState and nextDispatch: the closure after the call, what
\* the call returns, and whether and with what result it invoked mergeProps.
pureSelector(c, kind, nextOwn, nextState, nextDispatch) ==
  LET mergeCalled == \/ ~refEqual(c.lastOwn, nextOwn)
                     \/ ~refEqual(c.lastState, nextState)
                     \/ ~refEqual(c.lastDispatch, nextDispatch)
      nextMerged == Obj(freshMergedProps(c), mergeProps(kind, nextState, nextDispatch, nextOwn))
      replaced == mergeCalled
                  /\ (c.lastMerged = Undefined \/ ~shallowEqual(c.lastMerged, nextMerged))
  IN [closure |-> [lastOwn |-> nextOwn, lastState |-> nextState,
                   lastDispatch |-> nextDispatch,
                   lastMerged |-> IF mergeCalled THEN nextMerged ELSE c.lastMerged,
                   lastResult |-> IF replaced THEN nextMerged ELSE c.lastResult],
      result |-> IF replaced THEN nextMerged ELSE c.lastResult,
      mergeCalled |-> mergeCalled,
      nextMerged |-> IF mergeCalled THEN nextMerged ELSE Undefined]

\* What a call was given and did, set against the call before it.
NoCall ==
  [op |-> "init", hadPrevious |-> FALSE, sameRefs |-> FALSE, changed |-> {},
   allShallowEqual |-> FALSE,
   mergeCalled |-> FALSE, hadMerged |-> FALSE, mergedShallowEqual |-> FALSE,
   sameResult |-> FALSE, resultIsLast |-> FALSE, resultMatchesMerged |-> FALSE,
   retained |-> FALSE]

\* A step of the selector: no binding is mounted.
SelectorStep ==
  scenario = "selector"
  /\ UNCHANGED <<scenario, treeVars, connectVars, utilVars, hookVars>>

\* A call of pureSelector.
CallPureSelector ==
  /\ SelectorStep
  /\ \E nextOwn \in StageResults(closure.lastOwn, freshOwn(closure)),
        nextState \in StageResults(closure.lastState, freshState(closure)),
        nextDispatch \in StageResults(closure.lastDispatch, freshDispatch(closure)) :
       LET r == pureSelector(closure, mergeKind, nextOwn, nextState, nextDispatch) IN
       /\ closure' = settledSelector(r.closure)
       /\ sev' = [op |-> "pureSelector",
                  hadPrevious |-> closure.lastOwn # Undefined,
                  sameRefs |-> /\ refEqual(nextOwn, closure.lastOwn)
                               /\ refEqual(nextState, closure.lastState)
                               /\ refEqual(nextDispatch, closure.lastDispatch),
                  changed |->
                    (IF refEqual(nextOwn, closure.lastOwn) THEN {} ELSE {"own"})
                    \cup (IF refEqual(nextState, closure.lastState) THEN {} ELSE {"state"})
                    \cup (IF refEqual(nextDispatch, closure.lastDispatch)
                            THEN {} ELSE {"dispatch"}),
                  allShallowEqual |-> /\ shallowEqual(nextOwn, closure.lastOwn)
                                      /\ shallowEqual(nextState, closure.lastState)
                                      /\ shallowEqual(nextDispatch, closure.lastDispatch),
                  mergeCalled |-> r.mergeCalled,
                  hadMerged |-> closure.lastMerged # Undefined,
                  mergedShallowEqual |-> r.mergeCalled
                                         /\ shallowEqual(closure.lastMerged, r.nextMerged),
                  sameResult |-> refEqual(r.result, closure.lastResult),
                  resultIsLast |-> refEqual(r.result, r.closure.lastResult),
                  resultMatchesMerged |-> shallowEqual(r.result, r.closure.lastMerged),
                  retained |-> ~refEqual(r.result, r.closure.lastMerged)]
  /\ UNCHANGED mergeKind

\* No selector is created.
NoSelector == closure = NewPureSelector /\ sev = NoCall

\* createPureFinalPropsSelector({getState, getDispatch, getOwnProps,
\* mergeProps}) has returned pureSelector, not yet called.
InitSelector == mergeKind \in MergeProps /\ NoSelector

\* ------------------------------------------------------------- utilities
\* Mappings with keys: a function from the keys an object has to their
\* values.
Keys == {"a", "b"}
Vals == {0, 1}
Mappings == UNION {[K -> Vals] : K \in SUBSET Keys}
EmptyMapping == [k \in {} |-> 0]

\* {...target, ...source}: the keys of source are assigned over target.
Spread(target, source) ==
  [k \in DOMAIN target \cup DOMAIN source |->
     IF k \in DOMAIN source THEN source[k] ELSE target[k]]

\* Variant: the parent props are spread last.
defaultMergePropsParentLast(stateProps, dispatchProps, parentProps) ==
  Spread(Spread(Spread(EmptyMapping, stateProps), dispatchProps), parentProps)

\* defaultMergeProps: ({...parentProps, ...stateProps, ...dispatchProps}).
defaultMergeProps(stateProps, dispatchProps, parentProps) ==
  Spread(Spread(Spread(EmptyMapping, parentProps), stateProps), dispatchProps)

NotCalled == [called |-> FALSE, value |-> EmptyMapping]
Returned(v) == [called |-> TRUE, value |-> v]

\* A call of one of the functions on its own: no binding is mounted.
UtilStep(s) ==
  scenario = s /\ UNCHANGED <<scenario, treeVars, connectVars, selectorVars, hookVars>>

\* defaultMergeProps(stateProps, dispatchProps, parentProps).
CallDefaultMergeProps ==
  /\ UtilStep("defaultMergeProps")
  /\ ~mergeResult.called
  /\ mergeResult' = Returned(defaultMergeProps(mergeArgs.stateProps, mergeArgs.dispatchProps,
                                               mergeArgs.parentProps))
  /\ UNCHANGED <<mergeArgs, memo, mev, ownPure, ownSelector, oev, factories, matched>>

\* memoizeFinalPropsSelector(selector, enhance): the function memoize it
\* returns, with lastProps and lastResult.  selector is its parameter: a
\* call of memoize is given what selector returns, the object it returned
\* last time or a new one.  enhance makes a new object from the props.
NewMemoize == [lastProps |-> Undefined, lastResult |-> Undefined]

enhance(nextProps, fresh) == Obj(fresh, <<nextProps.content>>)

\* References are names: between two calls lastProps is named 1 and
\* lastResult 2.
freshSelected(m) == m.lastProps.ref + 2
freshEnhanced(m) == m.lastResult.ref + 2

settledMemoize(m) == [m EXCEPT !.lastProps.ref = 1, !.lastResult.ref = 2]

\* Variant: enhance runs only when the selector returned another reference.
memoizeByReference(m, nextProps) ==
  LET enhanceCalled == m.lastProps = Undefined \/ ~refEqual(m.lastProps, nextProps)
      lastResult == IF enhanceCalled THEN enhance(nextProps, freshEnhanced(m))
                    ELSE m.lastResult
  IN [closure |-> [lastProps |-> nextProps, lastResult |-> lastResult],
      result |-> lastResult, enhanceCalled |-> enhanceCalled]

\* memoize(state, ownProps, dispatch), selector having returned nextProps.
memoize(m, nextProps) ==
  LET enhanceCalled == m.lastProps = Undefined \/ ~shallowEqual(m.lastProps, nextProps)
      lastResult == IF enhanceCalled THEN enhance(nextProps, freshEnhanced(m))
                    ELSE m.lastResult
  IN [closure |-> [lastProps |-> nextProps, lastResult |-> lastResult],
      result |-> lastResult, enhanceCalled |-> enhanceCalled]

NoMemoizeCall ==
  [op |-> "init", hadPrevious |-> FALSE, sameRef |-> FALSE, shallowSame |-> FALSE,
   enhanceCalled |-> FALSE, sameResult |-> FALSE]

\* A call of memoize.
CallMemoize ==
  /\ UtilStep("memoizeFinalPropsSelector")
  /\ \E nextProps \in StageResults(memo.lastProps, freshSelected(memo)) :
       \E r \in {memoize(memo, nextProps)} :
         /\ memo' = settledMemoize(r.closure)
         /\ mev' = [op |-> "memoize",
                    hadPrevious |-> memo.lastProps # Undefined,
                    sameRef |-> refEqual(nextProps, memo.lastProps),
                    shallowSame |-> shallowEqual(nextProps, memo.lastProps),
                    enhanceCalled |-> r.enhanceCalled,
                    sameResult |-> refEqual(r.result, memo.lastResult)]
  /\ UNCHANGED <<mergeArgs, mergeResult, ownPure, ownSelector, oev, factories, matched>>

\* buildOwnPropsSelector(pure): impureOwnPropsSelector, or a
\* pureOwnPropsSelector with its lastProps and lastResult.
NewOwnPropsSelector == [lastProps |-> Undefined, lastResult |-> Undefined]

impureOwnPropsSelector(props) == props

\* References are names: between two calls lastProps is named 1, and
\* lastResult 1 as well when it is that object, 2 when it is an older one.
freshNextProps(c) == c.lastProps.ref + c.lastResult.ref + 1

settledOwnProps(c) ==
  [c EXCEPT !.lastProps.ref = 1,
            !.lastResult.ref = IF refEqual(c.lastResult, c.lastProps) THEN 1 ELSE 2]

\* Variant: the argument is returned whenever it is another reference.
pureOwnPropsSelectorByReference(c, nextProps) ==
  LET lastResult == IF c.lastProps = Undefined \/ ~refEqual(c.lastProps, nextProps)
                      THEN nextProps ELSE c.lastResult
  IN [closure |-> [lastProps |-> nextProps, lastResult |-> lastResult],
      result |-> lastResult]

\* pureOwnPropsSelector(_, nextProps).
pureOwnPropsSelector(c, nextProps) ==
  LET lastResult == IF c.lastProps = Undefined \/ ~shallowEqual(c.lastProps, nextProps)
                      THEN nextProps ELSE c.lastResult
  IN [closure |-> [lastProps |-> nextProps, lastResult |-> lastResult],
      result |-> lastResult]

\* The function buildOwnPropsSelector(pure) returns, called: the closure
\* after the call (the impure function has none) and what is returned.
buildOwnPropsSelector(pure, c, nextProps) ==
  IF pure THEN pureOwnPropsSelector(c, nextProps)
  ELSE [closure |-> c, result |-> impureOwnPropsSelector(nextProps)]

NoOwnPropsCall ==
  [op |-> "init", hadPrevious |-> FALSE, sameRef |-> FALSE, shallowSame |-> FALSE,
   returnedArgument |-> FALSE, sameResult |-> FALSE, previous |-> NewOwnPropsSelector]

\* A call of the own-props selector.  previous holds the argument of the
\* call before and what that call returned; the caller passes one of these
\* two objects or a new one.
CallOwnPropsSelector ==
  /\ UtilStep("ownPropsSelector")
  /\ \E nextProps \in StageResults(oev.previous.lastProps, freshNextProps(oev.previous))
                       \cup StageResults(oev.previous.lastResult,
                                         freshNextProps(oev.previous)) :
       \E r \in {buildOwnPropsSelector(ownPure, ownSelector, nextProps)} :
         /\ ownSelector' = IF ownPure THEN settledOwnProps(r.closure) ELSE r.closure
         /\ oev' = [op |-> "ownProps",
                    hadPrevious |-> oev.op # "init",
                    sameRef |-> refEqual(nextProps, oev.previous.lastProps),
                    shallowSame |-> shallowEqual(nextProps, oev.previous.lastProps),
                    returnedArgument |-> refEqual(r.result, nextProps),
                    sameResult |-> refEqual(r.result, oev.previous.lastResult),
                    previous |-> settledOwnProps([lastProps |-> nextProps,
                                                  lastResult |-> r.result])]
  /\ UNCHANGED <<mergeArgs, mergeResult, memo, mev, ownPure, factories, matched>>

NoOwnProps == ownSelector = NewOwnPropsSelector /\ oev = NoOwnPropsCall

\* createMatchingSelector(factories, options, getOwnProps).  A factory is
\* what it returns for the options: a selector, or undefined or null.
FactoryResults == {"undefined", "null", "selectorA", "selectorB"}
Truthy(v) == v \notin {"undefined", "null"}
FactoryLists == UNION {[1..n -> FactoryResults] : n \in 0..MaxFactories}

\* Variant: the factories are tried from the first to the last.
createMatchingSelectorFirstToLast(fs) ==
  LET RECURSIVE loop(_, _)
      loop(i, invoked) ==
        IF i > Len(fs) THEN [selector |-> "undefined", invoked |-> invoked]
        ELSE LET selector == fs[i]
             IN IF Truthy(selector)
                  THEN [selector |-> selector, invoked |-> Append(invoked, i)]
                  ELSE loop(i + 1, Append(invoked, i))
  IN loop(1, <<>>)

\* The loop for (i = factories.length - 1; i >= 0; i--), with the indices
\* counted from 1: what is returned, and the factories called, in order.
createMatchingSelector(fs) ==
  LET RECURSIVE loop(_, _)
      loop(i, invoked) ==
        IF i < 1 THEN [selector |-> "undefined", invoked |-> invoked]
        ELSE LET selector == fs[i]
             IN IF Truthy(selector)
                  THEN [selector |-> selector, invoked |-> Append(invoked, i)]
                  ELSE loop(i - 1, Append(invoked, i))
  IN loop(Len(fs), <<>>)

NoMatchCall == [called |-> FALSE, selector |-> "undefined", invoked |-> <<>>]

CallCreateMatchingSelector ==
  /\ UtilStep("createMatchingSelector")
  /\ \E r \in {createMatchingSelector(factories)} :
       matched' = [called |-> TRUE, selector |-> r.selector, invoked |-> r.invoked]
  /\ UNCHANGED <<mergeArgs, mergeResult, memo, mev, ownPure, ownSelector, oev, factories>>

NoMatching == factories = <<>> /\ matched = NoMatchCall

NoMergeArgs ==
  [stateProps |-> EmptyMapping, dispatchProps |-> EmptyMapping, parentProps |-> EmptyMapping]

\* No utility is called.
NoMemoize == memo = NewMemoize /\ mev = NoMemoizeCall

NoUtil ==
  /\ mergeArgs = NoMergeArgs /\ mergeResult = NotCalled
  /\ NoMemoize
  /\ ownPure = TRUE /\ NoOwnProps
  /\ NoMatching

\* buildOwnPropsSelector(pure) has returned, for either value of pure.
InitOwnPropsSelector ==
  /\ mergeArgs = NoMergeArgs /\ mergeResult = NotCalled
  /\ NoMemoize
  /\ ownPure \in BOOLEAN /\ NoOwnProps
  /\ NoMatching

\* The factory lists createMatchingSelector is called with.
InitCreateMatchingSelector ==
  /\ mergeArgs = NoMergeArgs /\ mergeResult = NotCalled
  /\ NoMemoize
  /\ ownPure = TRUE /\ NoOwnProps
  /\ factories \in FactoryLists /\ matched = NoMatchCall

\* The three mappings of a call of defaultMergeProps.
InitDefaultMergeProps ==
  /\ mergeArgs \in [stateProps : Mappings, dispatchProps : Mappings, parentProps : Mappings]
  /\ mergeResult = NotCalled
  /\ NoMemoize
  /\ ownPure = TRUE /\ NoOwnProps
  /\ NoMatching

\* No Connect instance is created.
NoConnect ==
  /\ stores = [s \in Stores |-> 0]
  /\ storeListeners = [s \in Stores |-> <<>>]
  /\ storeQueue = <<>>
  /\ wrapper = NoInstance
  /\ phase = "none"
  /\ pendingState = NoPendingState
  /\ rendered = Undefined
  /\ version = 0
  /\ cev = NoCalls("init")

\* Before the Connect instance is created: the arguments of connect and
\* the stores of the application.  Every combination of arguments whose
\* functions return mappings is tried under a Provider (a store in the
\* context only), as are the arguments of UsualArgs with one function that
\* can return a number; and every combination of stores with UsualArgs.
UsualArgs == [mapStateToProps |-> "count", mapDispatchToProps |-> "default",
              mergeProps |-> "default", pure |-> TRUE]

\* The functions given to connect that can return something that is not a
\* mapping.
InvalidArgs(args) ==
  {f \in {"mapStateToProps", "mapDispatchToProps", "mergeProps"} : args[f] = "invalid"}

InitConnect ==
  /\ connectArgs \in [mapStateToProps : MapStateToProps,
                       mapDispatchToProps : MapDispatchToProps,
                       mergeProps : MergePropsArgs, pure : BOOLEAN]
  /\ given \in [props : BOOLEAN, context : BOOLEAN]
  /\ connectArgs = UsualArgs \/ given = [props |-> FALSE, context |-> TRUE]
  /\ \/ InvalidArgs(connectArgs) = {}
     \/ \E f \in {"mapStateToProps", "mapDispatchToProps", "mergeProps"}, q \in BOOLEAN :
          connectArgs = [UsualArgs EXCEPT ![f] = "invalid", !.pure = q]
  /\ NoConnect

\* ------------------------------------------- useSelector and its context
\* One useSelector binding below a provider whose context value (the store
\* and the parent subscription node) may be replaced between two renders.
ContextStores == {"store1", "store2"}
ContextSubs == {"sub1", "sub2"}
ContextValues == [store : ContextStores, subscription : ContextSubs]
HookSelectors == {"first", "second"}
NoContext == [store |-> "none", subscription |-> "none"]

\* new Subscription(store, parentSub): a node, and which one it is.
Subscription(store, parentSub, id) == [id |-> id, store |-> store, parentSub |-> parentSub]
NoNode == Subscription("none", "none", 0)

NoMemo == [set |-> FALSE, store |-> "none", contextSub |-> "none", subscription |-> NoNode]
NoEffect == [set |-> FALSE, store |-> "none", subscription |-> NoNode]
NoRendering == [active |-> FALSE, selector |-> "none", context |-> NoContext,
                subscription |-> NoNode]

\* The binding before its first render.
NewHook ==
  [phase |-> "unrendered", memo |-> NoMemo, effect |-> NoEffect, rendering |-> NoRendering,
   latestSelector |-> "none", committed |-> NoContext]

\* A node is named by a number no node still referenced carries.
freshNode(h, ns) ==
  CHOOSE i \in 1..3 : \A n \in ns \cup {h.memo.subscription, h.effect.subscription} : n.id # i

\* Variant: the node is memoized on the store alone.
useMemoSubscriptionStoreOnly(cell, store, contextSub, fresh) ==
  IF cell.set /\ cell.store = store THEN cell
  ELSE [set |-> TRUE, store |-> store, contextSub |-> contextSub,
        subscription |-> Subscription(store, contextSub, fresh)]

\* useMemo(() => new Subscription(store, contextSub), [store, contextSub]).
useMemoSubscription(cell, store, contextSub, fresh) ==
  IF cell.set /\ cell.store = store /\ cell.contextSub = contextSub THEN cell
  ELSE [set |-> TRUE, store |-> store, contextSub |-> contextSub,
        subscription |-> Subscription(store, contextSub, fresh)]

\* node.trySubscribe() and node.tryUnsubscribe(), both idempotent.
nodeTrySubscribe(ns, n) == ns \cup {n}
nodeTryUnsubscribe(ns, n) == ns \ {n}

\* The second layout effect, with the dependencies [store, subscription]:
\* when one of them differs from the last run (or on mount), the cleanup of
\* the last run unsubscribes its node and the effect subscribes this one.
subscriptionEffect(effect, ns, store, subscription) ==
  IF effect.set /\ effect.store = store /\ effect.subscription = subscription
  THEN [effect |-> effect, nodes |-> ns, cleaned |-> {}, subscribed |-> {}]
  ELSE [effect |-> [set |-> TRUE, store |-> store, subscription |-> subscription],
        nodes |-> nodeTrySubscribe(IF effect.set
                                     THEN nodeTryUnsubscribe(ns, effect.subscription)
                                     ELSE ns, subscription),
        cleaned |-> IF effect.set THEN {effect.subscription} \cap ns ELSE {},
        subscribed |-> {subscription}]

NoHookEvent ==
  [op |-> "init", mounting |-> FALSE, sameContext |-> FALSE, reused |-> FALSE,
   cleaned |-> {}, subscribed |-> {}, selector |-> "none", selectorBefore |-> "none"]

HookStep ==
  scenario = "context"
  /\ UNCHANGED <<scenario, treeVars, connectVars, selectorVars, utilVars>>

\* The provider is given another store, another parent node, or both.
ProvideContext(v) ==
  /\ HookStep
  /\ hook.phase # "unmounted" /\ ~hook.rendering.active
  /\ v # provided
  /\ provided' = v
  /\ hev' = [NoHookEvent EXCEPT !.op = "provide"]
  /\ UNCHANGED <<hook, nodes>>

\* The render phase of useSelector(sel): useReduxContext, useMemo.
HookRender(sel) ==
  /\ HookStep
  /\ hook.phase # "unmounted" /\ ~hook.rendering.active
  /\ \E m \in {useMemoSubscription(hook.memo, provided.store, provided.subscription,
                                    freshNode(hook, nodes))} :
       /\ hook' = [hook EXCEPT !.memo = m,
                               !.latestSelector = useRef(hook.phase # "unrendered", @, sel),
                               !.rendering = [active |-> TRUE, selector |-> sel,
                                              context |-> provided,
                                              subscription |-> m.subscription]]
       /\ hev' = [NoHookEvent EXCEPT !.op = "render",
                                     !.sameContext = provided = hook.committed,
                                     !.reused = m.subscription = hook.memo.subscription]
  /\ UNCHANGED <<provided, nodes>>

\* The commit phase: the first layout effect stores the selector of the
\* render, the second one runs when its dependencies have changed.
HookCommit ==
  /\ HookStep
  /\ hook.rendering.active
  /\ \E e \in {subscriptionEffect(hook.effect, nodes, hook.rendering.context.store,
                                   hook.rendering.subscription)} :
       /\ hook' = [hook EXCEPT !.phase = "mounted",
                               !.latestSelector = hook.rendering.selector,
                               !.effect = e.effect,
                               !.committed = hook.rendering.context,
                               !.rendering = NoRendering]
       /\ nodes' = e.nodes
       /\ hev' = [op |-> "commit",
                  mounting |-> hook.phase = "unrendered",
                  sameContext |-> hook.rendering.context = hook.committed,
                  reused |-> hook.rendering.subscription = hook.effect.subscription,
                  cleaned |-> e.cleaned,
                  subscribed |-> e.subscribed,
                  selector |-> hook.rendering.selector,
                  selectorBefore |-> hook.latestSelector]
  /\ UNCHANGED provided

\* The component unmounts: the cleanup of the second effect runs.
HookUnmount ==
  /\ HookStep
  /\ hook.phase = "mounted" /\ ~hook.rendering.active
  /\ nodes' = nodeTryUnsubscribe(nodes, hook.effect.subscription)
  /\ hook' = [hook EXCEPT !.phase = "unmounted", !.effect = NoEffect]
  /\ hev' = [NoHookEvent EXCEPT !.op = "unmount",
                                !.cleaned = {hook.effect.subscription} \cap nodes]
  /\ UNCHANGED provided

NoHook == hook = NewHook /\ nodes = {} /\ hev = NoHookEvent

InitContext == provided \in ContextValues /\ NoHook

\* The application mounts the tree of useSelector components, or one
\* component wrapped by connect; or a pure final-props selector is created
\* and called on its own; or one of the utility functions is called.
Scenarios == {"tree", "connect", "selector", "defaultMergeProps",
              "memoizeFinalPropsSelector", "ownPropsSelector", "context",
              "createMatchingSelector"}

\* The arguments of connect where no Connect component is made.
NoArgs == [mapStateToProps |-> "none", mapDispatchToProps |-> "default",
           mergeProps |-> "default", pure |-> TRUE]
NoStores == [props |-> FALSE, context |-> FALSE]

Init ==
  /\ scenario \in Scenarios
  /\ IF scenario = "tree" THEN InitTree ELSE NoTree
  /\ IF scenario = "connect" THEN InitConnect
     ELSE connectArgs = NoArgs /\ given = NoStores /\ NoConnect
  /\ IF scenario = "selector" THEN InitSelector
     ELSE mergeKind = "default" /\ NoSelector
  /\ CASE scenario = "defaultMergeProps" -> InitDefaultMergeProps
       [] scenario = "ownPropsSelector" -> InitOwnPropsSelector
       [] scenario = "createMatchingSelector" -> InitCreateMatchingSelector
       [] OTHER -> NoUtil
  /\ IF scenario = "context" THEN InitContext
     ELSE provided = [store |-> "store1", subscription |-> "sub1"] /\ NoHook

Next ==
  \/ CallDefaultMergeProps
  \/ CallMemoize
  \/ CallCreateMatchingSelector
  \/ CallOwnPropsSelector
  \/ CallPureSelector
  \/ Construct
  \/ ConstructThrows
  \/ ConstructInvariantThrows
  \/ DidMount
  \/ \E s \in Stores, known \in BOOLEAN : StoreDispatch(s, known)
  \/ HandleChange
  \/ \E sameProps \in BOOLEAN, x \in 0..MaxLocal : Update(sameProps, x)
  \/ HotReload
  \/ WillUnmount
  \/ Dispatch
  \/ Notify
  \/ \E b \in Bindings : Render(b)
  \/ \E b \in Bindings : RenderThrows(b)
  \/ \E b \in Bindings : Commit(b)
  \/ \E b \in Bindings : Mount(b)
  \/ \E b \in Bindings : Unmount(b)
  \/ \E b \in Bindings : LocalUpdate(b)
  \/ \E v \in ContextValues : ProvideContext(v)
  \/ \E sel \in HookSelectors : HookRender(sel)
  \/ HookCommit
  \/ HookUnmount

Spec == Init /\ [][Next]_vars

\* ------------------------------------------------------------- properties
\* The selector of the binding's last render, called on the store as it is.
SelectedNow(b) == CallSelector(latestSelector[b], storeState, FreshRef)

\* The selector the binding's last render made: a component that counts
\* its renders has counted selectorId up since.
LastRendered(b) ==
  Closure(selId[b], prop[b],
          IF CountsRenders(b) THEN selectorId[b] - 1 ELSE selectorId[b])

Position(seq, x) == CHOOSE i \in DOMAIN seq : seq[i] = x
Members(seq) == {seq[i] : i \in DOMAIN seq}

\* C1: no missed update.  When the subscription effect of a mounting
\* binding has run, either the store still selects what the binding
\* rendered, or the effect's re-check has stored the new selection and
\* scheduled a render (or the selector now fails, which is C9's case).
TheoremC1 ==
  \A b \in Bindings :
    (ev.op = "mount" /\ ev.b = b /\ ~SelectedNow(b).throws
       /\ ~shallowEqual(SelectedNow(b).value, returned[b]))
    => /\ forced[b]
       /\ shallowEqual(latestSelectedState[b], SelectedNow(b).value)

\* The store changed between P's first render (which returned 0) and its
\* subscription effect, and the effect scheduled the second render.
WitnessC1 ==
  /\ ev.op = "mount" /\ ev.b = "P" /\ selId["P"] = "count"
  /\ returned["P"] = Prim(0) /\ storeState = 1
  /\ forced["P"] /\ latestSelectedState["P"] = Prim(1)

\* The pass under way goes over a parent and a child that were both
\* mounted (subscribed) when the store was dispatched.
PassOverMountedPair == {"P", "C"} \subseteq Members(snapshot)

\* C2: in every notification pass over a mounted parent and child, the
\* parent's callback runs strictly before the child's, also when both are
\* useSelector bindings.
CounterexampleC2 ==
  PassOverMountedPair =>
    \A j \in DOMAIN notified :
      notified[j] = "C" => \E i \in 1..(j - 1) : notified[i] = "P"

\* What the code does instead: a pass calls the callbacks in the order in
\* which the bindings subscribed to the shared context subscription,
\* whatever their place in the UI tree.
NotifiedInSubscriptionOrder ==
  \A i, j \in DOMAIN notified :
    (i < j /\ {notified[i], notified[j]} \subseteq Members(subscriptionOrder))
    => Position(subscriptionOrder, notified[i]) < Position(subscriptionOrder, notified[j])

\* A pass over parent and child mounted together called the child first.
ReachableChildNotifiedFirst ==
  /\ notified = <<"C", "P">>
  /\ subscriptionOrder = <<"C", "P">>
  /\ ev.op = "notify"

\* No render is scheduled, running or waiting for its commit.
Quiescent ==
  /\ ~crashed
  /\ notifyQueue = <<>>
  /\ \A b \in Bindings : ~needsRender[b] /\ ~forced[b] /\ ~pending[b].active /\ ~doomed[b]

\* C3: once every scheduled render is performed and committed, what a
\* mounted binding last returned is what its selector selects from the
\* current store state, whenever that call does not throw (for a selector
\* that builds a new object on every call: an object with the same content).
CounterexampleC3 ==
  \A b \in Bindings :
    (Quiescent /\ mounted[b] /\ ~SelectedNow(b).throws)
    => shallowEqual(returned[b], SelectedNow(b).value)

\* The selector in latestSelector.current of a settled binding is the one
\* of its last render.
LatestSelectorCommitted ==
  \A b \in Bindings :
    (Quiescent /\ mounted[b]) => latestSelector[b] = LastRendered(b)

\* A binding whose selector is the same function on every render settles on
\* the latest state.
SettledOnLatestState ==
  \A b \in Bindings :
    (Quiescent /\ mounted[b] /\ ~CountsRenders(b) /\ ~SelectedNow(b).throws)
    => shallowEqual(returned[b], SelectedNow(b).value)

\* The store was dispatched between a render that passed a new selector
\* and its commit: the binding has settled on the value the render read.
ReachableStaleSelection ==
  /\ Quiescent /\ mounted["P"] /\ selId["P"] = "localCount"
  /\ storeState = 1 /\ returned["P"] = Prim(0)
  /\ SelectedNow("P").value = Prim(1)

\* After store updates the child has settled on the sum of the current
\* count and of the prop its parent selected from it.
ReachableSettledSum ==
  /\ Quiescent /\ mounted["P"] /\ mounted["C"] /\ selId["C"] = "sum"
  /\ storeState = 2 /\ returned["P"] = Prim(2) /\ returned["C"] = Prim(4)

\* C4: a store notification whose selector call returns schedules a render
\* exactly when the new value is not shallow-equal to the last one, and
\* leaves latestSelectedState alone when it is (the host performs the
\* render for a binding that is still mounted).
TheoremC4 ==
  \A b \in Bindings :
    (ev.op = "notify" /\ ev.b = b /\ ~ev.threw)
    => /\ ev.scheduled <=> ~shallowEqual(ev.selected, ev.before)
       /\ shallowEqual(ev.selected, ev.before) => latestSelectedState[b] = ev.before
       /\ ~shallowEqual(ev.selected, ev.before) =>
            (mounted[b] => forced[b]) /\ latestSelectedState[b] = ev.selected

\* The selector returned a new array with the keys of the last one: no
\* render, and the ref still holds the old array.
WitnessC4 ==
  /\ ev.op = "notify" /\ ev.b = "P" /\ selId["P"] = "keys"
  /\ ev.selected.ref # ev.before.ref
  /\ ~ev.scheduled /\ ~forced["P"]
  /\ latestSelectedState["P"] = ev.before

\* C5: the store-change callback calls the selector of the last committed
\* render.  Each commit puts the selector of its render in latestSelector,
\* and a notification acts on what that selector returns: nothing changes
\* when it returns a value shallow-equal to the last one, whatever the
\* selector of the subscribing render would return.
TheoremC5 ==
  [][\A b \in Bindings :
       /\ (ev'.op \in {"commit", "mount"} /\ ev'.b = b)
            => latestSelector'[b] = pending[b].selector
       /\ (ev'.op = "notify" /\ ev'.b = b) =>
            LET now == CallSelector(latestSelector[b], storeState, FreshRef) IN
            /\ (~now.throws /\ shallowEqual(now.value, latestSelectedState[b]))
                 => /\ forced'[b] = forced[b]
                    /\ latestSelectedState'[b] = latestSelectedState[b]
            /\ (~now.throws /\ ~shallowEqual(now.value, latestSelectedState[b]))
                 => (mounted[b] => forced'[b]) /\ latestSelectedState'[b] = now.value
            /\ now.throws
                 => latestSubscriptionCallbackError'[b] = SelectorError(storeState)
    ]_vars

\* A notification found the latest selector's value unchanged and scheduled
\* nothing, where the selector of the subscribing render selects another.
WitnessC5 ==
  /\ ev.op = "notify" /\ ev.b = "P" /\ selId["P"] = "local"
  /\ capturedSelector["P"] # latestSelector["P"]
  /\ CallSelector(capturedSelector["P"], storeState, FreshRef).value # ev.before
  /\ ev.selected = ev.before
  /\ ~ev.scheduled /\ ~forced["P"]

\* C6: a render-phase error carries the correlation text exactly when the
\* error slot is set as the selector throws, and then names the error of
\* the slot; with no callback failure recorded since the binding's last
\* commit it carries none.
TheoremC6 ==
  \A b \in Bindings :
    (ev.op = "renderThrows" /\ ev.b = b)
    => /\ renderError[b].thrown
       /\ renderError[b].correlated <=> latestSubscriptionCallbackError[b].set
       /\ renderError[b].correlated
            => renderError[b].previous = latestSubscriptionCallbackError[b]
       /\ ~lastFailure[b].set => ~renderError[b].correlated

\* The child's selector threw on the prop of a re-render, no callback having
\* failed before: the error has no correlation text.
WitnessC6 ==
  /\ ev.op = "renderThrows" /\ ev.b = "C" /\ selId["C"] = "propPos"
  /\ ~latestSubscriptionCallbackError["C"].set
  /\ renderError["C"].thrown /\ ~renderError["C"].correlated

\* The render-phase error that follows a failed callback is correlated.
ReachableCorrelated ==
  /\ ev.op = "renderThrows" /\ ev.b = "P" /\ selId["P"] = "throwPos"
  /\ renderError["P"].correlated /\ renderError["P"].previous = SelectorError(1)

\* C7: a selector failure in the store-change callback does not leave the
\* callback: the error is put in the slot and the pass goes on.
TheoremC7 ==
  /\ ev.op # "notifyEscaped"
  /\ \A b \in Bindings :
       (ev.op \in {"notify", "mount"} /\ ev.b = b /\ ev.threw)
       => latestSubscriptionCallbackError[b] = SelectorError(storeState)

\* The child's callback failed on its stale prop, the error is in its slot
\* and the parent's callback is still to be called in the same pass.
WitnessC7 ==
  /\ ev.op = "notify" /\ ev.b = "C" /\ ev.threw
  /\ latestSubscriptionCallbackError["C"].set
  /\ notifyQueue = <<"P">>

\* The tree of the transient-error tests: the parent selects the count and
\* passes it down, the child's selector throws when store and prop disagree.
StalePropsTree == selId["P"] = "count" /\ selId["C"] = "mismatch"

\* A dispatch made outside any render pass, with parent and child mounted,
\* ended in a render-phase error of the child.
DispatchThrew ==
  /\ ev.op = "renderThrows" /\ ev.b = "C"
  /\ ~queueInPass
  /\ capturedSelector["P"] # NoClosure /\ capturedSelector["C"] # NoClosure

\* C8: in that tree, with parent and child mounted, a dispatch never
\* throws to the dispatcher.
CounterexampleC8 == StalePropsTree => ~DispatchThrew

\* What the code does in that tree: the failure of the child's selector in
\* the store-change callback is kept in the slot and a render of the child
\* is scheduled; an error is thrown only by a render phase of the child that
\* runs on a prop that disagrees with the store, and for a mounted child it
\* then carries the correlation text; a render of the child on a prop that
\* agrees with the store succeeds.
StalePropsRenderThrows ==
  StalePropsTree =>
    /\ ev.op # "notifyEscaped"
    /\ (ev.op = "notify" /\ ev.b = "C" /\ ev.threw)
         => latestSubscriptionCallbackError["C"].set /\ forced["C"]
    /\ (ev.op = "renderThrows" /\ ev.b = "C")
         => /\ prop["C"] # storeState
            /\ capturedSelector["C"] # NoClosure => renderError["C"].correlated
    /\ (ev.op = "render" /\ ev.b = "C")
         => prop["C"] = storeState /\ returned["C"] = Prim(2 * storeState)

\* The parent re-rendered first and passed the new count: the child, whose
\* callback had failed, rendered without error.
ReachableChildRenderedAfterParent ==
  /\ StalePropsTree
  /\ ev.op = "render" /\ ev.b = "C"
  /\ latestSubscriptionCallbackError["C"].set
  /\ storeState = 1 /\ returned["C"] = Prim(2)

\* C9 as stated, its last part: the render-phase pass that follows a
\* recorded callback failure, when it throws, carries that failure.
CounterexampleC9 ==
  \A b \in Bindings :
    (ev.op = "renderThrows" /\ ev.b = b /\ failureAwaitsRender[b])
    => renderError[b].correlated

\* The parts of C9 the code keeps: a caught failure schedules a render, and
\* while the slot of a mounted binding is set a render of the binding is
\* scheduled or waits for its commit.
FailureSchedulesRender ==
  \A b \in Bindings :
    /\ (ev.op \in {"notify", "mount"} /\ ev.b = b /\ ev.threw) => forced[b]
    /\ (latestSubscriptionCallbackError[b].set /\ subscribed[b])
         => forced[b] \/ needsRender[b] \/ pending[b].active

\* C10: the slot holds the latest callback failure since the last commit,
\* or nothing; the commit effect empties it (the subscription effect of a
\* mounting commit may then record a failure of its own re-check); a
\* throwing render leaves it as it was.
TheoremC10 ==
  \A b \in Bindings :
    /\ latestSubscriptionCallbackError[b] = lastFailure[b]
    /\ (ev.op = "commit" /\ ev.b = b) => ~latestSubscriptionCallbackError[b].set
    /\ (ev.op = "mount" /\ ev.b = b /\ ~ev.threw) => ~latestSubscriptionCallbackError[b].set
    /\ (ev.op = "renderThrows" /\ ev.b = b)
         => latestSubscriptionCallbackError[b] = ev.errBefore

\* A render threw with a failure in the slot, and the failure is still there.
WitnessC10 ==
  /\ ev.op = "renderThrows" /\ ev.b = "P"
  /\ ev.errBefore.set
  /\ latestSubscriptionCallbackError["P"] = ev.errBefore

\* A commit emptied a slot that held a failure.
ReachableCommitClears ==
  \E b \in Bindings :
    /\ ev.op = "commit" /\ ev.b = b /\ ev.errBefore.set
    /\ ~latestSubscriptionCallbackError[b].set

\* C11: an unmounted binding is out of reach of later dispatches.  The
\* cleanup of the subscription effect has taken the node of an unmounted
\* useSelector binding out of the listeners, so the only callback that can
\* still reach it belongs to the pass that was running as it unmounted; an
\* unmounted Connect instance has no listener on its store, and a
\* handleChange that the store still calls sets no state.
TheoremC11 ==
  /\ \A b \in Bindings :
       /\ ~subscribed[b] => b \notin Members(listeners)
       /\ (ev.op \in {"notify", "notifyEscaped"} /\ ev.b = b /\ ~subscribed[b])
            => detachedAt[b].done /\ detachedAt[b].pass = storeState
  /\ phase = "unmounted" =>
       /\ storeListeners[wrapper.store] = <<>>
       /\ ~wrapper.unsubscribe
       /\ ~pendingState.set
       /\ cev.op = "handleChange" => ~cev.setState

\* The child was unmounted after the first dispatch; the pass of a later
\* dispatch has called the parent's callback only.
WitnessC11 ==
  /\ childWhen = "zero" /\ detachedAt["C"].done /\ ~mounted["C"]
  /\ storeState > detachedAt["C"].pass
  /\ ev.op = "notify" /\ ev.b = "P"
  /\ snapshot = <<"P">> /\ notifyQueue = <<>>

\* The store called handleChange of an instance unmounted during the pass:
\* no state was set.
ReachableHandleChangeUnsubscribed ==
  /\ phase = "unmounted" /\ cev.op = "handleChange" /\ ~cev.setState
  /\ ~pendingState.set

\* The listeners of a pass, without repetition.
NoRepeat(seq) == \A i, j \in DOMAIN seq : seq[i] = seq[j] => i = j

\* C12: detaching a node during a notification pass leaves the pass as it
\* was enumerated: the callbacks already run followed by those still to
\* run are the snapshot taken at the dispatch, each listener once (a
\* render-phase error that unmounts the tree ends the pass); and the
\* snapshot of a later pass does not hold a node detached before it.
TheoremC12 ==
  /\ ~crashed => notified \o notifyQueue = snapshot
  /\ NoRepeat(snapshot)
  /\ \A b \in Bindings :
       (~subscribed[b] /\ detachedAt[b].done /\ detachedAt[b].pass < storeState)
       => b \notin Members(snapshot)

\* The parent re-rendered inside the pass and the commit unmounted the
\* child, whose callback was still to run: the pass has called it, once,
\* after the parent's.
WitnessC12 ==
  /\ childWhen = "one"
  /\ ev.op = "notify" /\ ev.b = "C"
  /\ ~subscribed["C"] /\ detachedAt["C"] = DetachedIn(storeState)
  /\ snapshot = <<"P", "C">> /\ notified = <<"P", "C">> /\ notifyQueue = <<>>

\* C13: trySubscribe and tryUnsubscribe of the Connect instance are
\* idempotent.  On every instance the model reaches, a second trySubscribe
\* right after a first registers nothing, runs no handleChange and leaves
\* the instance as the first did, and a subscribing instance then has
\* exactly one listener on its store; a second tryUnsubscribe calls no
\* unsubscribe handle, the two together call it once if the instance was
\* subscribed, and on an unsubscribed instance the first does nothing.  The
\* trySubscribe of a hot reload, coming after componentDidMount's, and
\* componentWillUnmount behave so.
TheoremC13 ==
  phase \in {"constructed", "mounted", "unmounted"} =>
    LET state == stores[wrapper.store]
        once == connectTrySubscribe(connectArgs, wrapper, state)
        twice == connectTrySubscribe(connectArgs, once.this, state)
        ls1 == storeSubscribe(storeListeners[wrapper.store], once.subscribeCalls)
        ls2 == storeSubscribe(ls1, twice.subscribeCalls)
        u1 == connectTryUnsubscribe(wrapper)
        u2 == connectTryUnsubscribe(u1.this)
    IN /\ twice.this = once.this /\ ls2 = ls1
       /\ twice.subscribeCalls = 0 /\ twice.handleChangeCalls = 0
       /\ shouldSubscribe(connectArgs) => Len(ls2) = 1 /\ once.this.unsubscribe
       /\ wrapper.unsubscribe => once.subscribeCalls = 0 /\ once.handleChangeCalls = 0
       /\ u2.this = u1.this /\ u2.unsubscribeCalls = 0
       /\ u1.unsubscribeCalls = (IF wrapper.unsubscribe THEN 1 ELSE 0)
       /\ ~wrapper.unsubscribe => u1.this = wrapper
       /\ (cev.op = "update" /\ cev.hotReloaded)
            => cev.subscribeCalls = 0 /\ cev.handleChangeCalls = 0
       /\ cev.op = "willUnmount"
            => /\ cev.unsubscribeCalls = (IF shouldSubscribe(connectArgs) THEN 1 ELSE 0)
               /\ storeListeners[wrapper.store] = <<>>

\* After a hot reload componentWillUpdate has called trySubscribe on the
\* instance componentDidMount had subscribed: nothing was registered, no
\* handleChange ran, the store has the one listener.
WitnessC13 ==
  /\ cev.op = "update" /\ cev.hotReloaded /\ shouldSubscribe(connectArgs)
  /\ cev.subscribeCalls = 0 /\ cev.handleChangeCalls = 0
  /\ wrapper.unsubscribe /\ Len(storeListeners[wrapper.store]) = 1

\* componentWillUnmount called the unsubscribe handle of a subscribed
\* instance, once; and tryUnsubscribe ran on an instance never subscribed.
ReachableUnsubscribedOnce ==
  /\ cev.op = "willUnmount" /\ cev.unsubscribeCalls = 1 /\ ~wrapper.unsubscribe

ReachableNeverSubscribed ==
  /\ cev.op = "willUnmount" /\ ~shouldSubscribe(connectArgs) /\ cev.unsubscribeCalls = 0

\* C14: a useSelector binding subscribes in the commit of the render that
\* mounted it.  The step that commits a mounting render leaves the binding's
\* listener registered on the context subscription; so when a dispatch has
\* returned (its pass has ended and the renders it caused are committed) the
\* listeners are those of the mounted bindings, one each.
TheoremC14 ==
  /\ \A b \in Bindings :
       /\ (ev.op = "mount" /\ ev.b = b) => b \in Members(listeners)
       /\ mounted[b] => subscribed[b] /\ b \in Members(listeners)
  /\ Quiescent =>
       /\ Len(listeners) = Cardinality({b \in Bindings : mounted[b]})
       /\ Members(listeners) = {b \in Bindings : mounted[b]}

\* The dispatch made the parent select 1 and render the child: as it
\* returns, the child's listener is the second on the context subscription.
WitnessC14 ==
  /\ childWhen = "one" /\ storeState = 1 /\ Quiescent
  /\ mounted["P"] /\ mounted["C"] /\ returned["C"] = Prim(1)
  /\ listeners = <<"P", "C">>

\* The listeners went from two to one as the dispatch unmounted the child.
ReachableChildUnsubscribed ==
  /\ childWhen = "zero" /\ storeState = 1 /\ Quiescent
  /\ mounted["P"] /\ ~mounted["C"] /\ detachedAt["C"].done
  /\ listeners = <<"P">>

\* ---------------------------------------------------------------- C15
\* C15, as stated: when on a call of the pure final-props selector the three
\* stages return results shallow-equal to what they returned on the call
\* before, merge is not invoked and the reference returned before is
\* returned again.  The selector compares the stage results by reference
\* (part_002:24), so this fails for a stage that returns a new object
\* shallow-equal to its last one.
CounterexampleC15 ==
  (sev.op = "pureSelector" /\ sev.hadPrevious /\ sev.allShallowEqual)
  => (~sev.mergeCalled /\ sev.sameResult)

\* C15, amended: when the three stages return the very references they
\* returned on the call before, merge is not invoked and the reference
\* returned before is returned again; when they return results that are
\* shallow-equal to the last ones but not all the same references, merge is
\* invoked, and the reference returned before is still returned again as
\* long as the merged value is shallow-equal to the last merged value.
TheoremC15 ==
  (sev.op = "pureSelector" /\ sev.hadPrevious) =>
    /\ sev.sameRefs => (~sev.mergeCalled /\ sev.sameResult)
    /\ (sev.allShallowEqual /\ ~sev.sameRefs) =>
         /\ sev.mergeCalled
         /\ sev.mergedShallowEqual => sev.sameResult

\* A call on which all three stages returned their last references, and a
\* call before it on which a merged value was kept back (lastResult is an
\* older object than lastMerged).
WitnessC15 ==
  /\ sev.op = "pureSelector" /\ sev.hadPrevious /\ sev.sameRefs
  /\ ~sev.mergeCalled /\ sev.sameResult
  /\ ~refEqual(closure.lastResult, closure.lastMerged)

\* A call on which the stages returned new objects shallow-equal to their
\* last ones: merge ran, the result reference did not change.
ReachableShallowEqualStages ==
  /\ sev.op = "pureSelector" /\ sev.allShallowEqual /\ ~sev.sameRefs
  /\ sev.mergeCalled /\ sev.mergedShallowEqual /\ sev.sameResult

\* ---------------------------------------------------------------- C16
\* C16: the reference a call of the pure final-props selector returns
\* differs from the one the call before returned only when merge was
\* invoked on this call and its result is not shallow-equal to the last
\* merged value, or there was no merged value yet; in every other case
\* the reference returned before is returned.  After every call the
\* returned object is shallow-equal to the last merged value.
TheoremC16 ==
  sev.op = "pureSelector" =>
    /\ ~sev.sameResult <=>
         (sev.mergeCalled /\ (~sev.hadMerged \/ ~sev.mergedShallowEqual))
    /\ shallowEqual(closure.lastResult, closure.lastMerged)

\* Merge was invoked on a stage result of a new content that the merge
\* function ignores: the merged value is shallow-equal to the last one and
\* the reference returned before is returned.
WitnessC16 ==
  /\ sev.op = "pureSelector" /\ sev.hadMerged
  /\ sev.mergeCalled /\ ~sev.allShallowEqual
  /\ sev.mergedShallowEqual /\ sev.sameResult

\* Merge was invoked and its result, not shallow-equal to the last merged
\* value, became the returned reference.
ReachableNewResult ==
  /\ sev.op = "pureSelector" /\ sev.hadMerged
  /\ sev.mergeCalled /\ ~sev.mergedShallowEqual /\ ~sev.sameResult
  /\ refEqual(closure.lastResult, closure.lastMerged)

\* ---------------------------------------------------------------- C17
\* C17: shouldComponentUpdate of the Connect wrapper returns true only if
\* the merge produced a new object for the wrapped component, or the props
\* of the wrapper changed (are not shallow-equal to the previous ones), or
\* the wrapper is impure, which always updates.  A pure wrapper that
\* returns false has run no merge and keeps its merged props.
TheoremC17 ==
  cev.op = "update" =>
    /\ cev.update => (cev.newMerged \/ cev.propsChanged \/ ~connectArgs.pure)
    /\ ~connectArgs.pure => cev.update
    /\ (connectArgs.pure /\ ~cev.update) =>
         (~cev.ranMerge /\ ~cev.newMerged /\ ~cev.propsChanged)

\* A pure wrapper updated on a store change alone: its props are the same
\* and the merge produced a new object.
WitnessC17 ==
  /\ cev.op = "update" /\ connectArgs.pure
  /\ cev.update /\ cev.storeChanged /\ ~cev.propsChanged /\ cev.newMerged

\* A pure wrapper saw a store change that left its state props
\* shallow-equal: no update.
ReachableUpdateSkipped ==
  /\ cev.op = "update" /\ connectArgs.pure
  /\ cev.storeChanged /\ cev.ranMapState /\ ~cev.update

\* An impure wrapper updated although its props are shallow-equal to the
\* previous ones and the store state is the same.
ReachableImpureUpdate ==
  /\ cev.op = "update" /\ ~connectArgs.pure
  /\ cev.update /\ ~cev.storeChanged /\ ~cev.propsChanged

\* ---------------------------------------------------------------- C18
\* C18, as stated: a mapStateToProps declared with one argument is
\* recomputed by shouldComponentUpdate only when the store state changed,
\* never because the props changed, and is called with the state alone; a
\* mapDispatchToProps declared with one argument is never recomputed when
\* the props changed.  An impure wrapper recomputes both on every update
\* (createConnect.js:83-88), so this fails for it.
CounterexampleC18 ==
  cev.op = "update" =>
    /\ (~shouldUpdateStateProps(connectArgs) /\ cev.ranMapState) => cev.storeChanged
    /\ ~shouldUpdateStateProps(connectArgs) => ~cev.mapStateWithProps
    /\ (~shouldUpdateDispatchProps(connectArgs) /\ cev.propsChanged) => ~cev.ranMapDispatch

\* C18, amended: in a pure wrapper, shouldComponentUpdate recomputes a
\* mapStateToProps declared with one argument only when the store state
\* changed, never because the props changed, and never recomputes a
\* mapDispatchToProps declared with one argument; a function declared with
\* one argument is always called without the props.  An impure wrapper
\* recomputes both on every update, whatever changed.
TheoremC18 ==
  cev.op = "update" =>
    /\ (connectArgs.pure /\ ~shouldUpdateStateProps(connectArgs) /\ cev.ranMapState)
         => cev.storeChanged
    /\ ~shouldUpdateStateProps(connectArgs) => ~cev.mapStateWithProps
    /\ (connectArgs.pure /\ ~shouldUpdateDispatchProps(connectArgs)) => ~cev.ranMapDispatch
    /\ ~connectArgs.pure => (cev.ranMapState /\ cev.ranMapDispatch)

\* A pure wrapper with a one-argument mapStateToProps updated because its
\* props changed, the store state being the same: neither function ran.
WitnessC18 ==
  /\ cev.op = "update" /\ connectArgs.pure
  /\ connectArgs.mapStateToProps = "count" /\ ~shouldUpdateDispatchProps(connectArgs)
  /\ cev.propsChanged /\ ~cev.storeChanged /\ cev.update
  /\ ~cev.ranMapState /\ ~cev.ranMapDispatch /\ cev.ranMerge

\* An impure wrapper with one-argument functions recomputed both because
\* its props changed.
ReachableImpureRecompute ==
  /\ cev.op = "update" /\ ~connectArgs.pure
  /\ ~shouldUpdateStateProps(connectArgs) /\ ~shouldUpdateDispatchProps(connectArgs)
  /\ cev.propsChanged /\ ~cev.storeChanged
  /\ cev.ranMapState /\ cev.ranMapDispatch

\* A mapStateToProps declared with two arguments ran because the props
\* changed, and was called with them.
ReachableMapStateWithProps ==
  /\ cev.op = "update" /\ connectArgs.pure
  /\ cev.propsChanged /\ ~cev.storeChanged /\ cev.ranMapState /\ cev.mapStateWithProps

\* ---------------------------------------------------------------- C19
\* What the wrapped component must be given for the props the wrapper has
\* and the state its store has now.
PropsFor(args, state, props) ==
  finalMergeProps(Obj(0, finalMapStateToProps(args, state, props)),
                  Obj(0, finalMapDispatchToProps(args, props)), props)

\* C19: the constructor does not subscribe; componentDidMount registers
\* the listener with the store and at once runs handleChange, which sets
\* the state of the store as this.state.storeState; so, whatever the store
\* was dispatched between the construction and the mount, once the update
\* that follows the mount has run the wrapped component is rendered with
\* the props derived from the state the store has (as long as no hot
\* reload replaced the methods of the instance: componentWillUpdate then
\* recomputes on the props of before the update).
TheoremC19 ==
  /\ phase = "constructed" =>
       (~wrapper.unsubscribe /\ storeListeners[wrapper.store] = <<>>
        /\ cev.subscribeCalls = 0 /\ cev.handleChangeCalls = 0)
  /\ (cev.op = "didMount" /\ shouldSubscribe(connectArgs)) =>
       /\ cev.subscribeCalls = 1 /\ cev.handleChangeCalls = 1 /\ cev.setState
       /\ wrapper.unsubscribe /\ storeListeners[wrapper.store] = <<"W">>
       /\ pendingState = [set |-> TRUE, storeState |-> StateOf(stores[wrapper.store])]
  /\ (phase = "mounted" /\ shouldSubscribe(connectArgs) /\ version = 0
      /\ storeQueue = <<>> /\ ~pendingState.set) =>
       rendered.content = PropsFor(connectArgs, stores[wrapper.store], wrapper.props)

\* The store was dispatched after the construction and before the mount:
\* at the mount the wrapped component is rendered with the props of the
\* old state, and handleChange has set the new state.
WitnessC19 ==
  /\ phase = "mounted" /\ cev.op = "didMount" /\ cev.handleChangeCalls = 1
  /\ connectArgs.mapStateToProps = "count"
  /\ stores[wrapper.store] = 1
  /\ rendered.content = PropsFor(connectArgs, 0, wrapper.props)
  /\ rendered.content # PropsFor(connectArgs, 1, wrapper.props)
  /\ pendingState = [set |-> TRUE, storeState |-> StateOf(1)]

\* The update that follows rendered the props of the new state.
ReachableRenderAfterMount ==
  /\ phase = "mounted" /\ cev.op = "update" /\ cev.update /\ cev.storeChanged
  /\ connectArgs.mapStateToProps = "count" /\ version = 0
  /\ wrapper.state = StateOf(1) /\ stores[wrapper.store] = 1
  /\ storeQueue = <<>> /\ ~pendingState.set
  /\ rendered.content = PropsFor(connectArgs, 1, wrapper.props)

\* The state of the store changed while the instance was constructed and
\* not yet mounted: no listener was there to be called.
ReachableChangeBeforeMount ==
  /\ phase = "constructed" /\ cev.op = "dispatch"
  /\ stores[wrapper.store] = 1 /\ storeQueue = <<>>
  /\ rendered.content = PropsFor(connectArgs, 0, wrapper.props)
  /\ connectArgs.mapStateToProps = "count"

\* ---------------------------------------------------------------- C20
\* C20: the constructor takes the store passed in the props when there is
\* one and the store of the context otherwise, and derives the first props
\* from that store; with neither, it throws before mapStateToProps,
\* mapDispatchToProps or mergeProps is called and without subscribing, and
\* no instance exists.
TheoremC20 ==
  /\ phase \in {"constructed", "mounted", "unmounted"} =>
       /\ wrapper.store = (IF given.props THEN "props" ELSE "context")
       /\ given[wrapper.store]
       /\ \A s \in Stores : s # wrapper.store => storeListeners[s] = <<>>
  /\ cev.op = "construct" =>
       rendered.content = PropsFor(connectArgs, stores[wrapper.store], wrapper.props)
  /\ (~given.props /\ ~given.context) => phase \in {"none", "failed"}
  /\ phase = "failed" =>
       /\ ~given.props /\ ~given.context
       /\ cev = NoCalls("constructThrows")
       /\ wrapper = NoInstance /\ rendered = Undefined
       /\ \A s \in Stores : storeListeners[s] = <<>>
       /\ ~pendingState.set

\* Both stores are there and in different states: the instance holds the
\* one of the props and rendered the props derived from it.
WitnessC20 ==
  /\ cev.op = "construct" /\ given.props /\ given.context
  /\ stores.props # stores.context
  /\ wrapper.store = "props"
  /\ rendered.content = PropsFor(connectArgs, stores.props, wrapper.props)
  /\ rendered.content # PropsFor(connectArgs, stores.context, wrapper.props)

\* Only the context has a store: the instance holds it.
ReachableContextStore ==
  /\ cev.op = "construct" /\ ~given.props /\ given.context
  /\ wrapper.store = "context"

\* No store: the construction failed.
ReachableConstructFailed ==
  /\ phase = "failed" /\ cev.op = "constructThrows"
  /\ cev.subscribeCalls = 0 /\ ~cev.ranMapState /\ ~cev.ranMapDispatch /\ ~cev.ranMerge

\* ---------------------------------------------------------------- C21
\* C21: when mapStateToProps, mapDispatchToProps or mergeProps returns
\* something that is not a plain object, the call under way (the
\* constructor, or the update of the instance) throws an error naming that
\* function and the value it returned; the state props, dispatch props and
\* merged props the instance holds, and what it rendered, stay mappings: the
\* value is never stored.
TheoremC21 ==
  /\ wrapper # NoInstance =>
       /\ isPlainObject(wrapper.stateProps)
       /\ isPlainObject(wrapper.dispatchProps)
       /\ isPlainObject(wrapper.nextState)
       /\ isPlainObject(rendered)
  /\ wrapper = NoInstance => rendered = Undefined
  /\ cev.error.thrown =>
       /\ phase = "threw"
       /\ cev.op \in {"constructInvariantThrows", "updateThrows"}
       /\ cev.error.stage \in InvalidArgs(connectArgs)
       /\ ~isPlainObject(cev.error.value) /\ cev.error.value.kind = "prim"
       /\ ~cev.update
       /\ cev.op = "constructInvariantThrows" => wrapper = NoInstance
       /\ cev.error.stage = "mapStateToProps" =>
            (cev.ranMapState /\ ~cev.ranMapDispatch /\ ~cev.ranMerge
             /\ cev.error.value = Prim(stores[IF wrapper = NoInstance
                                               THEN resolveStore(given.props, given.context)
                                               ELSE wrapper.store]))
       /\ cev.error.stage = "mapDispatchToProps" => ~cev.ranMerge \/ cev.hotReloaded
       /\ cev.error.stage = "mergeProps" => cev.ranMerge
  /\ phase = "threw" => InvalidArgs(connectArgs) # {}

\* The update for a store change threw on the number mapStateToProps
\* returned; the instance still holds the state props of the old state.
WitnessC21 ==
  /\ cev.op = "updateThrows" /\ cev.error.stage = "mapStateToProps"
  /\ cev.error.value = Prim(1)
  /\ wrapper.stateProps = Obj(2, <<0>>)
  /\ rendered.content = PropsFor(connectArgs, 0, wrapper.props)

\* An update for new props threw on what mapDispatchToProps returned.
ReachableMapDispatchThrows ==
  /\ cev.op = "updateThrows" /\ cev.error.stage = "mapDispatchToProps"
  /\ cev.propsChanged /\ wrapper.dispatchProps = Obj(3, <<0>>)

\* An update threw on what mergeProps returned, the new state props
\* being stored already.
ReachableMergeThrows ==
  /\ cev.op = "updateThrows" /\ cev.error.stage = "mergeProps"
  /\ wrapper.stateProps = Obj(2, <<1>>)
  /\ wrapper.nextState.content = PropsFor(connectArgs, 0, wrapper.props)

\* The constructor threw.
ReachableConstructorInvariant ==
  /\ cev.op = "constructInvariantThrows" /\ cev.error.thrown /\ phase = "threw"

\* ---------------------------------------------------------------- C22
\* C22: the mapping defaultMergeProps returns has the keys of its three
\* arguments together, and for each key the value of dispatchProps if
\* dispatchProps has the key, else the value of stateProps if stateProps
\* has it, else the value of the parent props.
TheoremC22 ==
  mergeResult.called =>
    LET merged == mergeResult.value
        s == mergeArgs.stateProps
        d == mergeArgs.dispatchProps
        p == mergeArgs.parentProps
    IN /\ DOMAIN merged = DOMAIN p \cup DOMAIN s \cup DOMAIN d
       /\ \A k \in DOMAIN merged :
            merged[k] = IF k \in DOMAIN d THEN d[k]
                        ELSE IF k \in DOMAIN s THEN s[k]
                        ELSE p[k]

\* A key all three arguments have, with the value of dispatchProps unlike
\* the two others, and a key stateProps and the parent props have, with
\* different values.
WitnessC22 ==
  /\ mergeResult.called
  /\ mergeArgs.dispatchProps = [k \in {"a"} |-> 1]
  /\ mergeArgs.stateProps = [k \in Keys |-> IF k = "a" THEN 0 ELSE 1]
  /\ mergeArgs.parentProps = [k \in Keys |-> 0]
  /\ mergeResult.value = [k \in Keys |-> 1]

\* A key only the parent props have is kept.
ReachableParentKeyKept ==
  /\ mergeResult.called
  /\ mergeArgs.dispatchProps = EmptyMapping
  /\ mergeArgs.stateProps = [k \in {"a"} |-> 0]
  /\ mergeArgs.parentProps = [k \in {"b"} |-> 1]
  /\ mergeResult.value = [k \in Keys |-> IF k = "a" THEN 0 ELSE 1]

\* ---------------------------------------------------------------- C23
\* The comparison a caller asks for with the second argument of
\* useSelector.
SuppliedEquality(fn, a, b) ==
  IF fn = "refEquality" THEN refEqual(a, b) ELSE shallowEqual(a, b)

\* C23, as stated: when a component passes an equality function to
\* useSelector, the store-change callback calls forceRender exactly when
\* that function reports the new selected value and the last one as
\* different.  useSelector takes one parameter (part_000:41) and
\* checkForUpdates always compares with shallowEqual (part_000:86), so this
\* fails for a function other than shallowEqual.
CounterexampleC23 ==
  (ev.op = "notify" /\ ~ev.threw /\ equalityFn # "none") =>
    (ev.scheduled <=> ~SuppliedEquality(equalityFn, ev.selected, ev.before))

\* What the code does instead: whatever the second argument, forceRender
\* is called exactly when the two values are not shallow-equal.
EqualityFnIgnored ==
  (ev.op = "notify" /\ ~ev.threw) =>
    (ev.scheduled <=> ~shallowEqual(ev.selected, ev.before))

\* The selector returned a new array with the same elements, the component
\* asked for a comparison by reference, and no render was scheduled.
ReachableRefEqualityIgnored ==
  /\ ev.op = "notify" /\ ~ev.threw /\ equalityFn = "refEquality"
  /\ selId[ev.b] = "keys"
  /\ ~refEqual(ev.selected, ev.before) /\ ~ev.scheduled

\* ---------------------------------------------------------------- C24
\* C24: a call of the pure final-props selector invokes mergeProps if and
\* only if one of the three stage results is another reference than the
\* one kept from the call before; a new object shallow-equal to the last
\* one counts as changed, and the first call always merges.
TheoremC24 ==
  sev.op = "pureSelector" =>
    /\ sev.mergeCalled <=> sev.changed # {}
    /\ ~sev.hadPrevious => (sev.mergeCalled /\ ~sev.hadMerged)
    /\ sev.hadPrevious => sev.hadMerged

\* Only the dispatch stage returned a new object, equal in content to its
\* last one: merge was invoked.
WitnessC24 ==
  /\ sev.op = "pureSelector" /\ sev.hadPrevious
  /\ sev.changed = {"dispatch"} /\ sev.allShallowEqual
  /\ sev.mergeCalled

\* The first call.
ReachableFirstCall ==
  /\ sev.op = "pureSelector" /\ ~sev.hadPrevious
  /\ sev.changed = {"own", "state", "dispatch"} /\ sev.mergeCalled /\ ~sev.sameResult

\* A call with the three references of the call before: no merge.
ReachableNoMerge ==
  /\ sev.op = "pureSelector" /\ sev.hadPrevious /\ sev.changed = {} /\ ~sev.mergeCalled

\* ---------------------------------------------------------------- C25
\* C25: a call of memoize invokes enhance if and only if the selector had
\* returned nothing yet or what it returns now is not shallow-equal to what
\* it returned on the call before; else the call returns the object
\* enhance returned last.  What is returned was always enhanced from props
\* shallow-equal to the current ones.
TheoremC25 ==
  mev.op = "memoize" =>
    /\ mev.enhanceCalled <=> (~mev.hadPrevious \/ ~mev.shallowSame)
    /\ mev.sameResult <=> ~mev.enhanceCalled
    /\ memo.lastResult.content = <<memo.lastProps.content>>

\* The selector returned a new object shallow-equal to its last one:
\* enhance was not invoked and the last result was returned.
WitnessC25 ==
  /\ mev.op = "memoize" /\ mev.hadPrevious
  /\ ~mev.sameRef /\ mev.shallowSame
  /\ ~mev.enhanceCalled /\ mev.sameResult

\* The selector returned props of another content: enhance was invoked.
ReachableEnhanced ==
  /\ mev.op = "memoize" /\ mev.hadPrevious /\ ~mev.shallowSame
  /\ mev.enhanceCalled /\ ~mev.sameResult

\* The first call of memoize.
ReachableFirstMemoize ==
  /\ mev.op = "memoize" /\ ~mev.hadPrevious /\ mev.enhanceCalled

\* C26: the impure own-props stage returns its argument on every call.  The
\* pure stage returns the reference it returned before when the new
\* argument is shallow-equal to the argument of the preceding call, and the
\* new argument otherwise (the first call included); the closure of the pure
\* stage holds the argument and the result of the preceding call.
TheoremC26 ==
  oev.op = "ownProps" =>
    /\ ~ownPure => oev.returnedArgument
    /\ ownPure /\ oev.hadPrevious /\ oev.shallowSame => oev.sameResult
    /\ ownPure /\ ~(oev.hadPrevious /\ oev.shallowSame) => oev.returnedArgument
    /\ ownPure => ownSelector = oev.previous

\* The pure stage was called with a new object shallow-equal to the previous
\* argument and returned the previous reference, not the argument.
WitnessC26 ==
  /\ oev.op = "ownProps" /\ ownPure
  /\ oev.hadPrevious /\ oev.shallowSame /\ ~oev.sameRef
  /\ oev.sameResult /\ ~oev.returnedArgument

\* The impure stage returned a new argument shallow-equal to the previous one.
ReachableImpureReturnsArgument ==
  /\ oev.op = "ownProps" /\ ~ownPure
  /\ oev.hadPrevious /\ oev.shallowSame /\ ~oev.sameRef /\ oev.returnedArgument

\* The pure stage returned a new argument that differs in value.
ReachablePureNewValue ==
  /\ oev.op = "ownProps" /\ ownPure
  /\ oev.hadPrevious /\ ~oev.shallowSame /\ oev.returnedArgument /\ ~oev.sameResult

\* C27: after the commit of a re-render whose store and context subscription
\* are the ones of the commit before, the binding has the same subscription
\* node and the commit has unsubscribed and subscribed nothing, while
\* latestSelector holds the selector of the render; when the store or the
\* context subscription is another one, the commit has unsubscribed the old
\* node and subscribed a new one.  At most one node of the binding is
\* subscribed in any state, and after a commit it is the memoized node.
TheoremC27 ==
  /\ Cardinality(nodes) <= 1
  /\ hev.op = "commit" =>
       /\ nodes = {hook.memo.subscription}
       /\ hook.latestSelector = hev.selector
       /\ ~hev.mounting /\ hev.sameContext =>
            hev.reused /\ hev.cleaned = {} /\ hev.subscribed = {}
       /\ ~hev.mounting /\ ~hev.sameContext =>
            /\ ~hev.reused
            /\ Cardinality(hev.cleaned) = 1
            /\ hev.subscribed = nodes
            /\ hev.cleaned # hev.subscribed

\* A re-render under a context with another parent subscription node and
\* the same store has been committed: the old node was unsubscribed and the
\* new one subscribed.
WitnessC27 ==
  /\ hev.op = "commit" /\ ~hev.mounting /\ ~hev.sameContext
  /\ \E old \in hev.cleaned : old.store = provided.store /\ old.parentSub # provided.subscription
  /\ hev.subscribed = nodes /\ Cardinality(nodes) = 1

\* A re-render with another selector under the same context has been
\* committed: same node, nothing unsubscribed, the selector swapped.
ReachableSelectorSwapped ==
  /\ hev.op = "commit" /\ ~hev.mounting /\ hev.sameContext /\ hev.reused
  /\ hev.cleaned = {} /\ hev.subscribed = {}
  /\ hev.selectorBefore # hev.selector /\ hook.latestSelector = hev.selector

\* The context went to another store and back between two renders: the
\* re-render keeps the node.
ReachableContextRestored ==
  /\ hev.op = "render" /\ hev.sameContext /\ hev.reused /\ hook.phase = "mounted"

\* ---------------------------------------------------------------- C28
\* C28: when a pure Connect wrapper is asked whether to update with the same
\* store state and props shallow-equal to the previous ones, it runs neither
\* mapStateToProps nor mapDispatchToProps nor mergeProps, does not update,
\* schedules no setState and keeps the references of its state props,
\* dispatch props and merged props.  Whenever shouldComponentUpdate returns
\* false, these three references are the ones held before.
TheoremC28 ==
  cev.op = "update" =>
    /\ (connectArgs.pure /\ ~cev.storeChanged /\ ~cev.propsChanged) =>
         /\ ~cev.ranMapState /\ ~cev.ranMapDispatch /\ ~cev.ranMerge
         /\ ~cev.update /\ ~cev.setState
         /\ ~cev.newStateProps /\ ~cev.newDispatchProps /\ ~cev.newMerged
    /\ ~cev.update =>
         ~cev.newStateProps /\ ~cev.newDispatchProps /\ ~cev.newMerged

\* A pure wrapper with a subscription got a new props object shallow-equal
\* to the previous one while the store state was the same: nothing ran.
WitnessC28 ==
  /\ cev.op = "update" /\ connectArgs.pure /\ connectArgs.mapStateToProps # "none"
  /\ ~cev.storeChanged /\ ~cev.propsChanged
  /\ ~cev.update /\ ~cev.ranMapState /\ ~cev.ranMerge
  /\ ~cev.newStateProps /\ ~cev.newDispatchProps /\ ~cev.newMerged

\* shouldComponentUpdate returned false after mapStateToProps ran on a
\* changed store state: its shallow-equal result was dropped.
ReachableStatePropsDropped ==
  /\ cev.op = "update" /\ connectArgs.pure
  /\ cev.storeChanged /\ cev.ranMapState /\ ~cev.update /\ ~cev.newStateProps

\* ---------------------------------------------------------------- C29
\* C29: createMatchingSelector calls the factories from the last one down,
\* each at most once, and stops at the first one that returns a truthy
\* selector, which it returns: that is the truthy factory with the greatest
\* index, and no factory before it is called.  When no factory returns a
\* selector, the list being empty included, every factory has been called
\* and undefined is returned.
TheoremC29 ==
  matched.called =>
    LET n == Len(factories)
        hits == {i \in 1..n : Truthy(factories[i])}
    IN /\ \A k \in DOMAIN matched.invoked : matched.invoked[k] = n - k + 1
       /\ hits = {} => matched.selector = "undefined" /\ Len(matched.invoked) = n
       /\ hits # {} =>
            \E m \in hits :
              /\ \A i \in hits : i <= m
              /\ matched.selector = factories[m]
              /\ Len(matched.invoked) = n - m + 1
              /\ \A k \in DOMAIN matched.invoked : matched.invoked[k] >= m

\* Two factories return different selectors and a falsy one comes after
\* them: the later of the two selectors was returned and the first factory
\* was never called.
WitnessC29 ==
  /\ matched.called /\ Len(factories) = 3
  /\ Truthy(factories[1]) /\ Truthy(factories[2]) /\ ~Truthy(factories[3])
  /\ factories[1] # factories[2]
  /\ matched.selector = factories[2] /\ matched.invoked = <<3, 2>>

\* No factory matched: all were called and undefined was returned.
ReachableNoMatch ==
  /\ matched.called /\ Len(factories) = 2
  /\ matched.selector = "undefined" /\ matched.invoked = <<2, 1>>

\* The list of factories was empty.
ReachableNoFactories ==
  matched.called /\ factories = <<>> /\ matched.selector = "undefined"

\* ---------------------------------------------------------------- C30
\* C30: a Connect wrapper made by connect() without mapStateToProps never
\* subscribes.  In every state, through mount, updates, hot reloads,
\* dispatches and unmount: no store has a listener, no listener is waiting
\* to be called, this.unsubscribe is not set (isSubscribed() is false), the
\* last step called store.subscribe and setState zero times, and
\* this.state.storeState is still null with no setState pending.
TheoremC30 ==
  (scenario = "connect" /\ ~shouldSubscribe(connectArgs)) =>
    /\ \A s \in Stores : storeListeners[s] = <<>>
    /\ storeQueue = <<>>
    /\ ~wrapper.unsubscribe
    /\ cev.subscribeCalls = 0 /\ ~cev.setState
    /\ wrapper.state = NullState /\ ~pendingState.set

\* The store of a mounted wrapper without mapStateToProps has just taken a
\* dispatch that changed its state.
WitnessC30 ==
  /\ scenario = "connect" /\ ~shouldSubscribe(connectArgs)
  /\ phase = "mounted" /\ cev.op = "dispatch"
  /\ stores[wrapper.store] > 0
  /\ wrapper.state = NullState /\ storeListeners[wrapper.store] = <<>>

\* Such a wrapper was updated with new props after a dispatch.
ReachableUpdatedUnsubscribed ==
  /\ scenario = "connect" /\ ~shouldSubscribe(connectArgs)
  /\ cev.op = "update" /\ cev.update /\ stores[wrapper.store] > 0
  /\ ~wrapper.unsubscribe

\* Such a wrapper was hot reloaded and updated: trySubscribe ran again and
\* registered nothing.
ReachableReloadedUnsubscribed ==
  /\ scenario = "connect" /\ ~shouldSubscribe(connectArgs)
  /\ cev.op = "update" /\ cev.hotReloaded /\ cev.subscribeCalls = 0

\* Such a wrapper was unmounted.
ReachableUnmountedUnsubscribed ==
  /\ scenario = "connect" /\ ~shouldSubscribe(connectArgs)
  /\ cev.op = "willUnmount" /\ cev.unsubscribeCalls = 0

\* ---------------------------------------------------------------- C31
\* C31: what a call of the pure final-props selector returns is the
\* closure's lastResult, and it is shallow-equal to lastMerged, the value
\* merged most recently, with the very same content, also when it is an
\* older object than lastMerged; this holds after every call of every
\* sequence of calls.
TheoremC31 ==
  sev.op = "pureSelector" =>
    /\ sev.resultIsLast /\ sev.resultMatchesMerged
    /\ closure.lastResult.content = closure.lastMerged.content
    /\ sev.retained <=> ~refEqual(closure.lastResult, closure.lastMerged)

\* An older object was returned although the merge just ran and made a new
\* one: the two have the same content, which is not that of objects made
\* from stage results of content 0.
WitnessC31 ==
  /\ sev.op = "pureSelector" /\ sev.hadMerged
  /\ sev.mergeCalled /\ sev.retained /\ sev.sameResult
  /\ sev.resultMatchesMerged
  /\ closure.lastResult.content # <<0, 0, 0>> /\ closure.lastResult.content # <<0>>

\* The merge made an object of another content and it was returned.
ReachableResultReplaced ==
  /\ sev.op = "pureSelector" /\ sev.hadMerged
  /\ sev.mergeCalled /\ ~sev.sameResult /\ ~sev.retained /\ sev.resultMatchesMerged

\* ---------------------------------------------------------------- C32
\* C32: a render of a mounted binding, whether its selector returns or
\* throws, leaves latestSelector, latestSelectedState and
\* latestSubscriptionCallbackError of every mounted binding as they were.
\* The three refs of a binding change only in a step that runs its commit
\* effects (a commit or a mount) or its store-change callback (a
\* notification), or in the first render of an instance, which makes them.
TheoremC32 ==
  [][\A b \in Bindings :
       LET kept == /\ latestSelector'[b] = latestSelector[b]
                   /\ latestSelectedState'[b] = latestSelectedState[b]
                   /\ latestSubscriptionCallbackError'[b] =
                        latestSubscriptionCallbackError[b]
       IN /\ (ev'.op \in {"render", "renderThrows"} /\ mounted[b]) => kept
          /\ ~kept => \/ ev'.op \in {"commit", "mount", "notify"} /\ ev'.b = b
                      \/ ev'.op = "render" /\ ev'.b = b /\ ~mounted[b]]_vars

\* A mounted binding has rendered with another selector, which returned
\* another value, while its error slot held a callback error; the render
\* is not committed yet and the three refs hold what they held.
WitnessC32 ==
  \E b \in Bindings :
    /\ ev.op = "render" /\ ev.b = b /\ mounted[b] /\ pending[b].active
    /\ pending[b].selector # latestSelector[b]
    /\ pending[b].selectedState # latestSelectedState[b]
    /\ latestSelectedState[b] = ev.before
    /\ latestSubscriptionCallbackError[b] # NoError
    /\ latestSubscriptionCallbackError[b] = ev.errBefore

\* The render of a mounted binding threw: its refs hold what the last
\* commit and the callbacks left.
ReachableThrowingRerender ==
  \E b \in Bindings :
    /\ ev.op = "renderThrows" /\ ev.b = b
    /\ latestSelectedState[b] # Undefined /\ latestSelectedState[b] = ev.before
    /\ latestSelector[b] # Closure(selId[b], prop[b], selectorId[b])

\* The render of the parent was done and not committed when the render of
\* the child threw: the pass was dropped with the parent's refs untouched.
ReachableRenderDropped ==
  /\ ev.op = "renderThrows" /\ ev.b = "C"
  /\ latestSelectedState["P"] # Undefined
  /\ returned["P"] # latestSelectedState["P"]

====
